---- MODULE Spec2Model ----
(***************************************************************************)
(* Verification model of detached-shell (nds): the per-session PTY daemon  *)
(* loop and its multi-client attach protocol (src/src/pty/spawn.rs,        *)
(* src/src/pty/client.rs), the on-disk session registry                    *)
(* (src/src/session.rs, src/src/manager.rs) and the attach-side client     *)
(* (src/src/pty/spawn.rs, src/src/pty/io_handler.rs).                      *)
(*                                                                         *)
(* The groups of variables:                                                *)
(*   dvars  one session's daemon loop, its clients and its files           *)
(*            Spec      the daemon serving its clients                     *)
(*            SpecLife  the end of the session: shell exit, kill, reaping  *)
(*   avars  one attach_to_session call with its helper thread              *)
(*            SpecAttach                                                   *)
(*   lvars  the loop of attach_session around that call                    *)
(*            SpecAttach                                                   *)
(*   rvars  the registry of several sessions: create, info, list, attach,  *)
(*          kill, rename, cleanup                                          *)
(*            SpecRegistry                                                 *)
(*   pvars  components on their own, driven with every input               *)
(*            SpecRing  a PtyBuffer under push and drain_to                *)
(*            SpecRecognizer  process_input under every sequence of reads  *)
(*            SpecModes  the TerminalModeTracker under chunks of output    *)
(*            SpecCodec  the control envelopes byte by byte: what          *)
(*                       send_resize_command writes, what the parser and   *)
(*                       handle_client_input make of one read              *)
(*   fvars  socket errors of another kind in the daemon                    *)
(*            SpecFaults  Spec with such errors                            *)
(*   uvars  the socket-to-stdout thread of an attach client, byte by byte  *)
(*            SpecPump                                                     *)
(*   wvars  the registry's JSON files under a writer and a reader          *)
(*            SpecFiles                                                    *)
(* FairSpec, FairLife and FairAttach add the fairness the scheduling       *)
(* guarantees.                                                             *)
(***************************************************************************)
EXTENDS Integers, Sequences, FiniteSets, TLC

(***************************************************************************)
(* Bounds of the model                                                     *)
(***************************************************************************)
\* attach clients that ever connect to the session socket
MaxConns == 2
\* bytes the shell ever writes to the PTY (more than the ring holds)
MaxMaster == 3
\* free space of a client's socket buffer, in stream elements
SockCap == 1
\* input messages the attach clients ever send
MaxSends == 1
\* run_detached: max_consecutive_errors (10), scaled
MaxConsecutiveErrors == 2
\* chunks pushed to the PtyBuffer of SpecRing between two drains
MaxPushes == 4
\* length of the longest chunk pushed in SpecRing (longer than the cap)
MaxPushLen == 3
\* bytes fed to process_input in SpecRecognizer, and the most one read returns
MaxFed == 4
MaxRead == 2
\* arguments of an envelope, and bytes behind an envelope in one read, in
\* SpecCodec
MaxArgs == 2
MaxTail == 1
\* mode sequences and plain bytes the PTY writes in SpecModes
MaxModeSeqs == 2
\* bytes the socket-to-stdout thread reads in SpecPump, and in one read
MaxPumped == 5
MaxPumpRead == 2
\* the cap of the scrollback buffer (10 MiB in attach_to_session), scaled
ScrollCap == 3
\* keys the user ever types into an attach client
MaxKeys == 2
\* bytes the daemon ever sends to the attach client of SpecAttach
MaxOut == 1
\* distinct session ids (8 hex digits of a UUID, scaled)
MaxIds == 2
\* daemons ever created in SpecRegistry
MaxPids == 2

(***************************************************************************)
(* Program constants                                                       *)
(***************************************************************************)
\* ClientInfo::new: size of a client before its first resize
DefaultCols == 80
DefaultRows == 24

\* Elements of a client's output stream that are not PTY output.  PTY
\* output is the positive numbers: the k-th byte read from the master is k.
ModeSeq == 0
RefreshSeq == 0 - 1
Notification == 0 - 2
\* What reaches the master or a client's input: the form feed send_refresh
\* writes, a keystroke, a resize envelope ESC ] nds:resize:<cols>:<rows> BEL.
FormFeed == [t |-> "ff", cols |-> 0, rows |-> 0]
KeyByte == [t |-> "key", cols |-> 0, rows |-> 0]
ResizeEnvelope(sz) == [t |-> "resize", cols |-> sz[1], rows |-> sz[2]]

\* PtyBuffer::new(2 * 1024 * 1024), scaled to the model's stream
RingCap == 2
\* DEFAULT_BUFFER_SIZE, the most one read returns, scaled likewise
MaxChunk == 2

\* Connection 0 stands for every connection that was closed right after
\* the connect (a health probe); 1..MaxConns are the attach clients.
Probe == 0
ConnIds == 1..MaxConns
AllConns == 0..MaxConns
\* Terminal sizes (cols, rows) an attach client may report, and the size of
\* client c's terminal when it attaches.
Sizes == {<<40, 30>>, <<100, 10>>}
TerminalSize(c) == IF c % 2 = 1 THEN <<40, 30>> ELSE <<100, 10>>

(***************************************************************************)
(* Helpers                                                                 *)
(***************************************************************************)
Min(a, b) == IF a <= b THEN a ELSE b
Take(s, n) == SubSeq(s, 1, n)
Drop(s, n) == SubSeq(s, n + 1, Len(s))
Range(s) == {s[i] : i \in 1..Len(s)}
RECURSIVE Flatten(_)
Flatten(chunks) ==
  IF chunks = <<>> THEN <<>> ELSE Head(chunks) \o Flatten(Tail(chunks))
RECURSIVE Filter(_, _)
Filter(s, lo) ==
  IF s = <<>> THEN <<>>
  ELSE IF Head(s) > lo THEN <<Head(s)>> \o Filter(Tail(s), lo)
       ELSE Filter(Tail(s), lo)
Interval(a, b) == [i \in 1..(b - a) |-> a + i]
Positions(n) == [i \in 1..n |-> i]

VARIABLES
  \* ---- the daemon of one session (Spec) ----
  dpc,            \* position of run_detached in its loop body
  running,        \* the daemon's running flag
  alive,          \* the daemon process exists
  active_clients, \* Vec<ClientInfo>
  backlog,        \* connections waiting in the listener
  ring,           \* PtyBuffer: [buffer, total_bytes]
  masterRead,     \* bytes read from the master so far
  lastChunk,      \* the chunk the last read returned (<<>>: none)
  readResult,     \* what the last read of the master returned
  shell,          \* "alive"; exited: "eof" | "eio" (what a read of the
                  \* master then returns); "gone" with the daemon
  pty_errors,     \* consecutive_pty_errors
  winsize,        \* window size of the master <<cols, rows>>
  ptyIn,          \* what the daemon's last handler wrote to the master
  peer,           \* client end of a connection: "none" | "open" | "closed"
  sock,           \* what the daemon wrote and the client has not yet read
  inbound,        \* what the client has sent and the daemon not yet read
  sends,          \* input messages sent so far
  validated,      \* an attach passed validate_session_health, not yet connected
  json,           \* sessions/<id>.json: "none" | "detached" | "attached"
  sockFile,       \* sockets/<id>.sock exists
  status,         \* sessions/<id>.status: <<>> absent, <<n>> the count
  kpc,            \* position of a kill_session call
  \* ---- one attach_to_session call (SpecAttach) ----
  apc,            \* position of the main thread
  tty,            \* termios of the caller terminal: "original" | "raw"
  rawSet,         \* set_raw_mode has been called
  attach_running, \* the attach client's running flag
  paused,         \* the paused flag
  pump,           \* socket-to-stdout thread: "none" | "run" | "exited"
  held,           \* bytes in the thread's held_buffer
  daemonEnd,      \* the daemon's end of the socket: "open" | "closed"
  clientEnd,      \* the client's end: "open" | "shut"
  fromDaemon,     \* bytes in the socket the thread has not read
  stdin,          \* keys typed and not yet read
  stdinEof,       \* stdin is at end of file
  typed,          \* keys typed so far
  at_line_start,  \* handle_input_loop: at_line_start
  escape_state,   \* handle_input_loop: escape_state
  data_to_forward,\* what process_input returned to forward
  forwarded,      \* what the last read of stdin wrote to the socket
  result,         \* what attach_to_session returns
  \* ---- the loop of attach_session around it (SpecAttach) ----
  sigint_set,     \* the process has registered a ctrlc handler
  attach_result,  \* what attach_session returns: "none" | "ok" | "err"
  \* ---- the registry of sessions (SpecRegistry) ----
  meta,           \* sessions/<id>.json: the PID it records, 0: no file
  sockBound,      \* sockets/<id>.sock: the PID that bound it, 0: no file
  daemonOf,       \* the session id a live daemon PID serves, 0: no process
  spawned,        \* daemons created so far
  listed,         \* what list_all returned, <<>> after any other call
  statusFile,     \* sessions/<id>.status exists
  names,          \* the name field of sessions/<id>.json
  flags,          \* the attached field of sessions/<id>.json
  client,         \* the Session the attach client holds, id 0: no client
  foreign,        \* PIDs of daemons that are gone, held by other processes
  outcome,        \* what the last call returned
  \* ---- a PtyBuffer on its own (SpecRing) ----
  output_buffer,  \* the PtyBuffer: [buffer, total]
  pushed,         \* the chunks pushed since the last drain_to
  drained,        \* what the last drain_to appended to its output
  \* ---- process_input on its own (SpecRecognizer) ----
  rec_input,      \* the bytes the reads have returned so far
  rec_output,     \* the bytes process_input has returned to be forwarded
  rec_line_start, \* at_line_start
  rec_state,      \* escape_state
  rec_request,    \* "none", or the request that ended the loop
  \* ---- the control envelopes, byte by byte (SpecCodec) ----
  cl_kind,        \* what the client wrote: "resize", "envelope", "prefix"
  cl_data,        \* the bytes one read of the client's socket returned
  cl_head,        \* the bytes of cl_data before the envelope
  cl_tail,        \* the bytes of cl_data behind the envelope
  nds_command,    \* parse_nds_command(cl_data)
  command_end,    \* get_command_end(cl_data), -1 for None
  pty_written,    \* the bytes the daemon wrote to the master for this read
  size_set,       \* the (cols, rows) it set on the master, <<>> if none
  replied,        \* the daemon answered the client itself
  \* ---- the terminal mode tracker on its own (SpecModes) ----
  terminal_modes, \* the TerminalModeTracker: its four bits and its tail
  mode_seen,      \* the mode sequences the PTY has written in full, in order
  mode_part,      \* the sequence the last chunk ended inside, or "none"
  mode_rest,      \* the bytes of mode_part the next chunk starts with
  \* ---- the socket-to-stdout thread byte by byte (SpecPump) ----
  pump_pc,        \* "top": at the head of its loop, "read": in socket.read
  pump_paused,    \* the paused flag
  held_buffer,    \* held_buffer
  stdout_bytes,   \* the bytes written to stdout
  scrollback,     \* the shared scrollback buffer
  sock_read,      \* how many bytes the thread has read from the socket
  \* ---- the session files under concurrent processes (SpecFiles) ----
  json_file,      \* per id what <id>.json holds: "none" (no file), "empty",
                  \* "partial" or "whole" (the JSON of the record)
  pid_alive,      \* per id whether the recorded PID is a live process
  save_pc,        \* the writer: "idle", or "write" inside fs::write
  save_id,        \* the id of the record the writer saves
  reader_pc,      \* the reader: "idle", "list" (in list_all's loop), "load"
  reader_id,      \* the id a load reads
  dir_entries,    \* the entries of read_dir list_all has not yet come to
  sessions,       \* the ids of the records list_all has collected
  reader_result,  \* what the reader's last call returned
  \* ---- client sockets that fail in the daemon (SpecFaults) ----
  faulty          \* connections whose socket calls fail with an error that
                  \* is not pipe-class

dvars == <<dpc, running, alive, active_clients, backlog, ring, masterRead,
           lastChunk, readResult, shell, pty_errors, winsize, ptyIn, peer,
           sock, inbound, sends, validated, json, sockFile, status, kpc>>

avars == <<apc, tty, rawSet, attach_running, paused, pump, held, daemonEnd,
           clientEnd, fromDaemon, stdin, stdinEof, typed, at_line_start,
           escape_state, data_to_forward, forwarded, result>>

lvars == <<sigint_set, attach_result>>

rvars == <<meta, sockBound, daemonOf, spawned, listed, statusFile, names,
           flags, client, foreign, outcome>>

gvars == <<output_buffer, pushed, drained>>

evars == <<rec_input, rec_output, rec_line_start, rec_state, rec_request>>

cvars == <<cl_kind, cl_data, cl_head, cl_tail, nds_command, command_end, pty_written,
           size_set, replied>>

mvars == <<terminal_modes, mode_seen, mode_part, mode_rest>>

\* the variables of the components checked on their own
pvars == <<gvars, evars, cvars, mvars>>

fvars == <<faulty>>

wvars == <<json_file, pid_alive, save_pc, save_id, reader_pc, reader_id,
           dir_entries, sessions, reader_result>>

uvars == <<pump_pc, pump_paused, held_buffer, stdout_bytes, scrollback,
           sock_read>>

vars == <<dvars, avars, lvars, rvars, pvars, fvars, uvars, wvars>>

(***************************************************************************)
(* ClientInfo: non-blocking writes with backpressure (pty/client.rs)       *)
(*                                                                         *)
(* A client being served is a record                                       *)
(*   [id, pending, cols, rows, room, wrote, res]                           *)
(* where room is the free space of its socket, wrote what the handler has  *)
(* written to the socket so far and res the io::Result of the last call:   *)
(* "ok", "pipe" (BrokenPipe / ConnectionReset) or "other".                 *)
(***************************************************************************)
\* The error a write(2) or read(2) on the daemon's end returns, if any.
Fault(c) ==
  IF peer[c] = "closed" THEN "pipe"
  ELSE IF c \in faulty THEN "other" ELSE "none"

\* ClientInfo::new
NewClient(c) ==
  [id |-> c, pending |-> <<>>, cols |-> DefaultCols, rows |-> DefaultRows,
   room |-> SockCap - Len(sock[c]), wrote |-> <<>>, res |-> "ok"]

\* ClientInfo::flush_pending: write until the queue is empty or the socket
\* would block; any other error is returned.
flush_pending(cl) ==
  IF cl.pending = <<>> THEN [cl EXCEPT !.res = "ok"]
  ELSE IF Fault(cl.id) # "none" THEN [cl EXCEPT !.res = Fault(cl.id)]
  ELSE LET k == Min(Len(cl.pending), cl.room)
       IN [cl EXCEPT !.pending = Drop(cl.pending, k),
                     !.room = cl.room - k,
                     !.wrote = cl.wrote \o Take(cl.pending, k),
                     !.res = "ok"]

\* a send_data that drops the tail the socket did not take
send_data_lossy(cl, data) ==
  IF data = <<>> THEN [cl EXCEPT !.res = "ok"]
  ELSE IF Fault(cl.id) # "none" THEN [cl EXCEPT !.res = Fault(cl.id)]
  ELSE LET k == Min(Len(data), cl.room)
       IN [cl EXCEPT !.room = cl.room - k,
                     !.wrote = cl.wrote \o Take(data, k),
                     !.res = "ok"]

\* ClientInfo::send_data: queue behind pending data, else write directly
\* and queue the tail the socket did not take.
send_data(cl, data) ==
  IF data = <<>> THEN [cl EXCEPT !.res = "ok"]
  ELSE IF cl.pending # <<>>
    THEN flush_pending([cl EXCEPT !.pending = cl.pending \o data])
  ELSE IF Fault(cl.id) # "none" THEN [cl EXCEPT !.res = Fault(cl.id)]
  ELSE LET k == Min(Len(data), cl.room)
       IN [cl EXCEPT !.pending = Drop(data, k),
                     !.room = cl.room - k,
                     !.wrote = cl.wrote \o Take(data, k),
                     !.res = "ok"]

\* stream.write_all(data) straight on the socket, past pending_output; the
\* callers ignore its result.
write_all(cl, data) ==
  IF Fault(cl.id) # "none" THEN cl
  ELSE LET k == Min(Len(data), cl.room)
       IN [cl EXCEPT !.room = cl.room - k,
                     !.wrote = cl.wrote \o Take(data, k)]

\* The ClientInfo fields that outlive a handler.
Keep(cl) ==
  [id |-> cl.id, pending |-> cl.pending, cols |-> cl.cols, rows |-> cl.rows]
\* The client table as a handler serves it.
Serve(tbl) ==
  [i \in 1..Len(tbl) |->
     [id |-> tbl[i].id, pending |-> tbl[i].pending, cols |-> tbl[i].cols,
      rows |-> tbl[i].rows, room |-> SockCap - Len(sock[tbl[i].id]),
      wrote |-> <<>>,
      res |-> "ok"]]
\* disconnected_indices naming every position
AllIdx(served, i) == [j \in 1..Len(served) |-> j]
\* disconnected_indices: the positions whose call failed, in loop order
RECURSIVE FailedIdx(_, _)
FailedIdx(served, i) ==
  IF i > Len(served) THEN <<>>
  ELSE IF served[i].res # "ok" THEN <<i>> \o FailedIdx(served, i + 1)
       ELSE FailedIdx(served, i + 1)

(***************************************************************************)
(* PtyBuffer (src/pty_buffer.rs)                                           *)
(***************************************************************************)
RECURSIVE Evict(_)
Evict(rg) ==
  IF rg.total > RingCap /\ rg.buffer # <<>>
  THEN Evict([buffer |-> Tail(rg.buffer),
              total |-> rg.total - Len(Head(rg.buffer))])
  ELSE rg
\* a push that stores nothing
push_nothing(rg, data) == rg
\* a push that never evicts
push_keep_all(rg, data) ==
  [buffer |-> Append(rg.buffer, data), total |-> rg.total + Len(data)]
\* PtyBuffer::push
push(rg, data) ==
  Evict([buffer |-> Append(rg.buffer, data), total |-> rg.total + Len(data)])
\* PtyBuffer::drain_to: the bytes handed out
drain_to(rg) == Flatten(rg.buffer)
\* PtyBuffer::drain_to: what is left, every chunk popped and the total 0
RECURSIVE drain_left(_)
drain_left(rg) ==
  IF rg.buffer # <<>>
  THEN drain_left([buffer |-> Tail(rg.buffer), total |-> rg.total])
  ELSE [buffer |-> <<>>, total |-> 0]
EmptyRing == [buffer |-> <<>>, total |-> 0]

(***************************************************************************)
(* The daemon's handlers (pty/spawn.rs)                                    *)
(***************************************************************************)
\* TerminalModeTracker::apply_to_client: send the set-state sequences
apply_to_client(cl) ==
  LET r == send_data(cl, <<ModeSeq>>)
  IN IF r.res = "ok" THEN flush_pending(r) ELSE r

\* send_buffered_output_to_client: drain the ring to the client, then nudge
\* the PTY with a form feed; an error of the client ends it early.
send_buffered_output_to_client(cl, rg) ==
  IF rg.buffer # <<>>
  THEN LET r1 == send_data(cl, drain_to(rg))
           r2 == IF r1.res = "ok" THEN flush_pending(r1) ELSE r1
       IN [client |-> r2, ring |-> EmptyRing, refreshed |-> r2.res = "ok"]
  ELSE [client |-> cl, ring |-> rg, refreshed |-> TRUE]

\* active_clients.remove(i) for the indices, last first
RemoveOne(s, i) == IF i \in 1..Len(s) THEN Take(s, i - 1) \o Drop(s, i) ELSE s
RECURSIVE RemoveRev(_, _)
RemoveRev(s, idxs) ==
  IF idxs = <<>> THEN s
  ELSE RemoveRev(RemoveOne(s, idxs[Len(idxs)]), Take(idxs, Len(idxs) - 1))

MinOf(S) == CHOOSE m \in S : \A x \in S : m <= x

\* a disconnection handler that drops every client of the table
drop_all_clients(served, idxs, pin, ws) ==
  [kept |-> <<>>, dropped |-> Range(served), status |-> <<0>>,
   winsize |-> ws, ptyIn |-> pin]

\* a disconnection handler that does not rewrite the status file
remove_without_count(served, idxs, pin, ws) ==
  LET survivors == RemoveRev(Positions(Len(served)), idxs)
      kept0 == [j \in 1..Len(survivors) |-> served[survivors[j]]]
  IN [kept |-> kept0,
      dropped |-> {served[p] : p \in (1..Len(served)) \ Range(survivors)},
      status |-> status,
      winsize |-> ws,
      ptyIn |-> pin]

\* handle_client_disconnections on the served table: remove, write the
\* count, refresh the remaining clients, resize to the smallest of them
\* (resize_to_smallest: window size, SIGWINCH, form feed to the master).
handle_client_disconnections(served, idxs, pin, ws) ==
  LET survivors == RemoveRev(Positions(Len(served)), idxs)
      kept0 == [j \in 1..Len(survivors) |-> served[survivors[j]]]
      kept == [j \in 1..Len(kept0) |-> write_all(kept0[j], <<RefreshSeq>>)]
  IN [kept |-> kept,
      dropped |-> {served[p] : p \in (1..Len(served)) \ Range(survivors)},
      status |-> <<Len(kept0)>>,
      winsize |-> IF kept0 = <<>> THEN ws
                  ELSE <<MinOf({kept0[j].cols : j \in 1..Len(kept0)}),
                         MinOf({kept0[j].rows : j \in 1..Len(kept0)})>>,
      ptyIn |-> IF kept0 = <<>> THEN pin ELSE Append(pin, FormFeed)]

\* a handler that found nobody to disconnect
NoDisconnections(served, pin, ws) ==
  [kept |-> served, dropped |-> {}, status |-> status, winsize |-> ws,
   ptyIn |-> pin]

\* broadcast_to_clients, the pass over the table: flush, then send
BroadcastPass(served, data) ==
  [i \in 1..Len(served) |->
     LET f == flush_pending(served[i])
     IN IF f.res = "ok" THEN send_data(f, data) ELSE f]

\* broadcast_to_clients
broadcast_to_clients(tbl, data) ==
  LET served == BroadcastPass(Serve(tbl), data)
      idxs == FailedIdx(served, 1)
      d == IF idxs # <<>> THEN handle_client_disconnections(served, idxs, <<>>, winsize)
           ELSE NoDisconnections(served, <<>>, winsize)
  IN [d |-> d, ring |-> IF d.kept = <<>> THEN push(ring, data) ELSE ring]

\* flush_pending_clients
flush_pending_clients(tbl) ==
  LET served == [i \in 1..Len(tbl) |-> flush_pending(Serve(tbl)[i])]
      idxs == FailedIdx(served, 1)
  IN IF idxs # <<>> THEN handle_client_disconnections(served, idxs, <<>>, winsize)
     ELSE NoDisconnections(served, <<>>, winsize)

\* What a handler's result leaves in the client table and on the sockets.
TableOf(d) == [j \in 1..Len(d.kept) |-> Keep(d.kept[j])]
Touched(d) == Range(d.kept) \cup d.dropped
SockOf(d) ==
  [c \in AllConns |->
     IF \E r \in Touched(d) : r.id = c
     THEN sock[c] \o (CHOOSE r \in Touched(d) : r.id = c).wrote
     ELSE sock[c]]
\* parse_nds_command on what one read returned: a command is found only
\* when the data starts with the envelope.
StartsWithResize(data) == data # <<>> /\ Head(data).t = "resize"

\* handle_client_input, one client of the loop.  acc is
\* [tbl, ptyIn, winsize, idxs, read, aborted]; wok says whether writes to
\* the master succeed during this pass.
InputOne(acc, i, wok) ==
  LET cl == acc.tbl[i]
      data == inbound[cl.id]
  IN IF data # <<>>
     THEN IF StartsWithResize(data)
          THEN LET rest == Tail(data)
                   sized == [cl EXCEPT !.cols = Head(data).cols,
                                       !.rows = Head(data).rows]
               IN [acc EXCEPT !.tbl[i] = sized,
                              !.winsize = <<sized.cols, sized.rows>>,
                              !.read = @ \cup {cl.id},
                              !.ptyIn = IF wok THEN @ \o rest ELSE @,
                              !.aborted = rest # <<>> /\ ~wok]
          ELSE [acc EXCEPT !.read = @ \cup {cl.id},
                           !.ptyIn = IF wok THEN @ \o data ELSE @]
     ELSE IF Fault(cl.id) # "none"
          THEN [acc EXCEPT !.idxs = Append(@, i)]
          ELSE acc

RECURSIVE InputLoop(_, _, _)
InputLoop(acc, i, wok) ==
  IF i > Len(acc.tbl) \/ acc.aborted THEN acc
  ELSE InputLoop(InputOne(acc, i, wok), i + 1, wok)

\* handle_client_input
handle_client_input(tbl, wok) ==
  LET acc == InputLoop([tbl |-> Serve(tbl), ptyIn |-> <<>>,
                        winsize |-> winsize, idxs |-> <<>>, read |-> {},
                        aborted |-> FALSE], 1, wok)
  IN [read |-> acc.read,
      d |-> IF ~acc.aborted /\ acc.idxs # <<>>
            THEN handle_client_disconnections(acc.tbl, acc.idxs, acc.ptyIn,
                                              acc.winsize)
            ELSE NoDisconnections(acc.tbl, acc.ptyIn, acc.winsize)]

\* check_client_health: the clients whose zero-byte write fails (zerr: the
\* platform reports a dead socket on a zero-byte write)
RECURSIVE DeadIdx(_, _, _)
DeadIdx(served, i, zerr) ==
  IF i > Len(served) THEN <<>>
  ELSE IF zerr /\ Fault(served[i].id) # "none"
       THEN <<i>> \o DeadIdx(served, i + 1, zerr)
       ELSE DeadIdx(served, i + 1, zerr)

\* check_client_health: remove the dead, write the count, notify the rest
check_client_health(tbl, zerr) ==
  LET served == Serve(tbl)
      dead == DeadIdx(served, 1, zerr)
      survivors == RemoveRev(Positions(Len(served)), dead)
      kept0 == [j \in 1..Len(survivors) |-> served[survivors[j]]]
  IN IF dead = <<>> THEN NoDisconnections(served, <<>>, winsize)
     ELSE [kept |-> [j \in 1..Len(kept0) |->
                       write_all(kept0[j], <<Notification>>)],
           dropped |-> {served[p] :
                          p \in (1..Len(served)) \ Range(survivors)},
           status |-> <<Len(kept0)>>,
           winsize |-> winsize,
           ptyIn |-> <<>>]

(***************************************************************************)
(* Spec: one session.  The daemon's loop (run_detached) is cut into its    *)
(* five calls; the attach clients, the shell and kill_session run          *)
(* concurrently with it.                                                   *)
(***************************************************************************)
TableIds(tbl) == {tbl[i].id : i \in 1..Len(tbl)}
Attached(c) == c \in TableIds(active_clients)
DroppedIds(d) == {r.id : r \in d.dropped}
Reset(f, ids, v) == [c \in AllConns |-> IF c \in ids THEN v ELSE f[c]]
NoConn(v) == [c \in AllConns |-> v]
Opened == {c \in ConnIds : peer[c] # "none"}
\* the next connection: ids are handed out in order
NextConn == Cardinality(Opened) + 1

\* What a handler leaves behind: the table, the sockets, the status file,
\* the window size and the master's input.  The daemon's end of a dropped
\* connection is closed, so its state is gone.
ApplyPatch(d, readIds) ==
  /\ active_clients' = TableOf(d)
  /\ sock' = Reset(SockOf(d), DroppedIds(d), <<>>)
  /\ inbound' = Reset(inbound, DroppedIds(d) \cup readIds, <<>>)
  /\ status' = d.status
  /\ winsize' = d.winsize
  /\ ptyIn' = d.ptyIn

\* Session::cleanup
cleanup == json' = "none" /\ sockFile' = FALSE /\ status' = <<>>

\* The daemon process is gone: its memory, its sockets and its PTY with it.
DaemonGone ==
  /\ alive' = FALSE
  /\ dpc' = "done"
  /\ active_clients' = <<>>
  /\ backlog' = <<>>
  /\ ring' = EmptyRing
  /\ masterRead' = 0
  /\ lastChunk' = <<>>
  /\ readResult' = "none"
  /\ shell' = "gone"
  /\ pty_errors' = 0
  /\ winsize' = <<DefaultCols, DefaultRows>>
  /\ ptyIn' = <<>>
  /\ sock' = NoConn(<<>>)
  /\ inbound' = NoConn(<<>>)

\* attach_to_session before set_raw_mode: connected, the resize sent
InitAttach ==
  /\ apc = "raw"
  /\ tty = "original"
  /\ rawSet = FALSE
  /\ attach_running = TRUE
  /\ paused = FALSE
  /\ pump = "none"
  /\ held = 0
  /\ daemonEnd = "open"
  /\ clientEnd = "open"
  /\ fromDaemon = 0
  /\ stdin = <<>>
  /\ stdinEof = FALSE
  /\ typed = 0
  /\ at_line_start = TRUE
  /\ escape_state = 0
  /\ data_to_forward = <<>>
  /\ forwarded = <<>>
  /\ result = "none"
  /\ sigint_set = TRUE
  /\ attach_result = "none"

\* the registry: no session yet
SessionIds == 1..MaxIds
Pids == 1..MaxPids

InitRegistry ==
  /\ meta = [id \in SessionIds |-> 0]
  /\ sockBound = [id \in SessionIds |-> 0]
  /\ daemonOf = [pid \in Pids |-> 0]
  /\ spawned = 0
  /\ listed = <<>>
  /\ statusFile = [id \in SessionIds |-> FALSE]
  /\ names = [id \in SessionIds |-> [some |-> FALSE, text |-> <<>>]]
  /\ flags = [id \in SessionIds |-> FALSE]
  /\ client = [id |-> 0, pid |-> 0, name |-> [some |-> FALSE, text |-> <<>>]]
  /\ foreign = {}
  /\ outcome = [op |-> "none", id |-> 0, res |-> "", step |-> "",
                arg |-> <<>>]

\* spawn_socket_to_stdout_thread before its loop, ScrollbackHandler::new
InitPump ==
  /\ pump_pc = "top"
  /\ pump_paused = FALSE
  /\ held_buffer = <<>>
  /\ stdout_bytes = <<>>
  /\ scrollback = <<>>
  /\ sock_read = 0

\* MaxIds sessions exist, their records saved, no call under way
InitFiles ==
  /\ json_file = [i \in 1..MaxIds |-> "whole"]
  /\ pid_alive = [i \in 1..MaxIds |-> TRUE]
  /\ save_pc = "idle"
  /\ save_id = 0
  /\ reader_pc = "idle"
  /\ reader_id = 0
  /\ dir_entries = <<>>
  /\ sessions = {}
  /\ reader_result = "none"

\* PtyBuffer::new
InitRing ==
  /\ output_buffer = EmptyRing
  /\ pushed = <<>>
  /\ drained = <<>>
\* handle_input_loop before its loop: at_line_start = true, escape_state = 0
InitRecognizer ==
  /\ rec_input = <<>>
  /\ rec_output = <<>>
  /\ rec_line_start = TRUE
  /\ rec_state = 0
  /\ rec_request = "none"
\* no read of a client's socket has returned yet
InitCodec ==
  /\ cl_kind = "none"
  /\ cl_data = <<>>
  /\ cl_head = <<>>
  /\ cl_tail = <<>>
  /\ nds_command = [some |-> FALSE, cmd |-> <<>>, args |-> <<>>]
  /\ command_end = 0 - 1
  /\ pty_written = <<>>
  /\ size_set = <<>>
  /\ replied = FALSE
\* TerminalModeTracker::default, no output observed yet
InitModes ==
  /\ terminal_modes = [cursor_visible |-> TRUE,
                       application_cursor_keys |-> FALSE,
                       alternate_screen |-> FALSE,
                       bracketed_paste |-> FALSE,
                       tail |-> <<>>]
  /\ mode_seen = <<>>
  /\ mode_part = "none"
  /\ mode_rest = <<>>
\* the daemon after spawn_new_internal_with_size
Init ==
  /\ dpc = "accept"
  /\ running = TRUE
  /\ alive = TRUE
  /\ active_clients = <<>>
  /\ backlog = <<>>
  /\ ring = EmptyRing
  /\ masterRead = 0
  /\ lastChunk = <<>>
  /\ readResult = "none"
  /\ shell = "alive"
  /\ pty_errors = 0
  /\ winsize = <<DefaultCols, DefaultRows>>
  /\ ptyIn = <<>>
  /\ peer = [c \in AllConns |-> IF c = Probe THEN "closed" ELSE "none"]
  /\ sock = NoConn(<<>>)
  /\ inbound = NoConn(<<>>)
  /\ sends = 0
  /\ validated = FALSE
  /\ json = "detached"
  /\ sockFile = TRUE
  /\ status = <<>>
  /\ kpc = "idle"
  /\ InitAttach
  /\ InitRegistry
  /\ InitRing
  /\ InitRecognizer
  /\ InitCodec
  /\ InitModes
  /\ faulty = {}
  /\ InitPump
  /\ InitFiles

\* run_detached, loop condition true: handle_new_connections
DaemonAccept ==
  /\ dpc = "accept" /\ alive /\ running
  /\ dpc' = "read"
  /\ IF backlog = <<>>
     THEN /\ ptyIn' = <<>>
          /\ UNCHANGED <<active_clients, backlog, ring, sock, status>>
     ELSE LET c == Head(backlog)
              c1 == apply_to_client(NewClient(c))
              rep == send_buffered_output_to_client(c1, ring)
              c2 == flush_pending(rep.client)
          IN /\ active_clients' = Append(active_clients, Keep(c2))
             /\ backlog' = Tail(backlog)
             /\ ring' = rep.ring
             /\ ptyIn' = IF rep.refreshed THEN <<FormFeed>> ELSE <<>>
             /\ sock' = [sock EXCEPT ![c] = @ \o c2.wrote]
             /\ status' = <<Len(active_clients) + 1>>
  /\ UNCHANGED <<running, alive, masterRead, lastChunk, readResult, shell,
                 pty_errors, winsize, peer, inbound, sends, validated, json,
                 sockFile, kpc>>
  /\ UNCHANGED <<avars, lvars, rvars, pvars, fvars, uvars, wvars>>

\* run_detached, loop condition false: the loop ends, the caller cleans up
\* and exits (spawn_new_detached_with_name)
DaemonStop ==
  /\ dpc = "accept" /\ alive /\ ~running
  /\ DaemonGone
  /\ cleanup
  /\ UNCHANGED <<running, peer, sends, validated, kpc>>
  /\ UNCHANGED <<avars, lvars, rvars, pvars, fvars, uvars, wvars>>

\* read_from_pty returned n bytes: observe, broadcast_to_clients
ReadChunk(n) ==
  /\ dpc = "read" /\ alive
  /\ shell = "alive"
  /\ masterRead + n <= MaxMaster
  /\ LET data == Interval(masterRead, masterRead + n)
         b == broadcast_to_clients(active_clients, data)
     IN /\ ApplyPatch(b.d, {})
        /\ ring' = b.ring
        /\ lastChunk' = data
  /\ masterRead' = masterRead + n
  /\ readResult' = "data"
  /\ pty_errors' = 0
  /\ dpc' = "input"
  /\ UNCHANGED <<running, alive, backlog, shell, peer, sends, validated,
                 json, sockFile, kpc>>
  /\ UNCHANGED <<avars, lvars, rvars, pvars, fvars, uvars, wvars>>

\* read_from_pty: the master has nothing (WouldBlock)
ReadWouldBlock ==
  /\ dpc = "read" /\ alive
  /\ shell = "alive"
  /\ dpc' = "input"
  /\ readResult' = "none"
  /\ ptyIn' = <<>>
  /\ UNCHANGED <<running, alive, active_clients, backlog, ring, masterRead,
                 lastChunk, shell, pty_errors, winsize, peer, sock,
                 inbound, sends, validated, json, sockFile,
                 status, kpc>>
  /\ UNCHANGED <<avars, lvars, rvars, pvars, fvars, uvars, wvars>>

\* read_from_pty: the read returned 0, the shell has exited; Ok(None)
ReadZero ==
  /\ dpc = "read" /\ alive
  /\ shell = "eof"
  /\ dpc' = "input"
  /\ readResult' = "eof"
  /\ ptyIn' = <<>>
  /\ UNCHANGED <<running, alive, active_clients, backlog, ring, masterRead,
                 lastChunk, shell, pty_errors, winsize, peer, sock,
                 inbound, sends, validated, json, sockFile,
                 status, kpc>>
  /\ UNCHANGED <<avars, lvars, rvars, pvars, fvars, uvars, wvars>>

\* read_from_pty: the read failed (EIO once the slave side is closed);
\* healthy is HealthMonitor::is_healthy at that moment
ReadError(healthy) ==
  /\ dpc = "read" /\ alive
  /\ shell = "eio"
  /\ IF pty_errors + 1 >= MaxConsecutiveErrors /\ ~healthy
     THEN /\ DaemonGone
          /\ cleanup
          /\ UNCHANGED <<running, peer, sends, validated, kpc>>
     ELSE /\ pty_errors' = IF pty_errors + 1 >= MaxConsecutiveErrors
                           THEN MaxConsecutiveErrors - 1
                           ELSE pty_errors + 1
          /\ dpc' = "input"
          /\ readResult' = "error"
          /\ ptyIn' = <<>>
          /\ UNCHANGED <<running, alive, active_clients, backlog, ring,
                         masterRead, lastChunk, shell, winsize, peer,
                         sock, inbound, sends, validated,
                         json, sockFile, status, kpc>>
  /\ UNCHANGED <<avars, lvars, rvars, pvars, fvars, uvars, wvars>>

\* handle_client_input; wok: writes to the master succeed in this pass
DaemonInput(wok) ==
  /\ dpc = "input" /\ alive
  /\ wok \/ \E i \in 1..Len(active_clients) :
               inbound[active_clients[i].id] # <<>>
  /\ LET r == handle_client_input(active_clients, wok)
     IN ApplyPatch(r.d, r.read)
  /\ dpc' = "flush"
  /\ lastChunk' = <<>>
  /\ readResult' = "none"
  /\ UNCHANGED <<running, alive, backlog, ring, masterRead, shell,
                 pty_errors, peer, sends, validated, json, sockFile, kpc>>
  /\ UNCHANGED <<avars, lvars, rvars, pvars, fvars, uvars, wvars>>

\* flush_pending_clients
DaemonFlush ==
  /\ dpc = "flush" /\ alive
  /\ ApplyPatch(flush_pending_clients(active_clients), {})
  /\ dpc' = "health"
  /\ UNCHANGED <<running, alive, backlog, ring, masterRead, lastChunk,
                 readResult, shell, pty_errors, peer, sends, validated, json,
                 sockFile, kpc>>
  /\ UNCHANGED <<avars, lvars, rvars, pvars, fvars, uvars, wvars>>

\* the periodic check_client_health, when its ten seconds have elapsed
DaemonHealth(due, zerr) ==
  /\ dpc = "health" /\ alive
  /\ due \/ ~zerr
  /\ IF due
     THEN ApplyPatch(check_client_health(active_clients, zerr), {})
     ELSE /\ ptyIn' = <<>>
          /\ UNCHANGED <<active_clients, sock, inbound, status, winsize>>
  /\ dpc' = "accept"
  /\ UNCHANGED <<running, alive, backlog, ring, masterRead, lastChunk,
                 readResult, shell, pty_errors, peer, sends, validated, json,
                 sockFile, kpc>>
  /\ UNCHANGED <<avars, lvars, rvars, pvars, fvars, uvars, wvars>>

\* A connect that is dropped at once: validate_session_health of an attach
\* (manager.rs) after Session::load found the record and a live PID.
ValidateSessionHealth ==
  /\ json # "none" /\ alive /\ sockFile
  /\ ~validated
  /\ NextConn <= MaxConns
  /\ backlog' = Append(backlog, Probe)
  /\ validated' = TRUE
  /\ UNCHANGED <<dpc, running, alive, active_clients, ring, masterRead,
                 lastChunk, readResult, shell, pty_errors, winsize, ptyIn,
                 peer, sock, inbound, sends, json, sockFile, status, kpc>>
  /\ UNCHANGED <<avars, lvars, rvars, pvars, fvars, uvars, wvars>>

\* attach_session after the validation: mark_attached, then
\* attach_to_session connects and sends its size (send_resize_command)
AttachConnect ==
  /\ validated
  /\ alive /\ sockFile
  /\ NextConn <= MaxConns
  /\ json' = "attached"
  /\ peer' = [peer EXCEPT ![NextConn] = "open"]
  /\ backlog' = Append(backlog, NextConn)
  /\ inbound' = [inbound EXCEPT
                   ![NextConn] = <<ResizeEnvelope(TerminalSize(NextConn))>>]
  /\ validated' = FALSE
  /\ UNCHANGED <<dpc, running, alive, active_clients, ring, masterRead,
                 lastChunk, readResult, shell, pty_errors, winsize, ptyIn,
                 sock, sends, sockFile, status, kpc>>
  /\ UNCHANGED <<avars, lvars, rvars, pvars, fvars, uvars, wvars>>

\* the attach client forwards a keystroke (handle_input_loop) or its resize
\* monitor reports a new size (spawn_resize_monitor_thread)
ClientSend(c, msg) ==
  /\ peer[c] = "open" /\ alive
  /\ c \in TableIds(active_clients) \cup Range(backlog)
  /\ sends < MaxSends
  /\ inbound' = [inbound EXCEPT ![c] = Append(@, msg)]
  /\ sends' = sends + 1
  /\ UNCHANGED <<dpc, running, alive, active_clients, backlog, ring,
                 masterRead, lastChunk, readResult, shell, pty_errors,
                 winsize, ptyIn, peer, sock, validated,
                 json, sockFile, status, kpc>>
  /\ UNCHANGED <<avars, lvars, rvars, pvars, fvars, uvars, wvars>>

\* the attach client's pump thread reads what its socket holds
ClientRead(c) ==
  /\ peer[c] = "open" /\ alive
  /\ c \in TableIds(active_clients)
  /\ sock[c] # <<>>
  /\ sock' = [sock EXCEPT ![c] = <<>>]
  /\ UNCHANGED <<dpc, running, alive, active_clients, backlog, ring,
                 masterRead, lastChunk, readResult, shell, pty_errors,
                 winsize, ptyIn, peer, inbound, sends, validated, json,
                 sockFile, status, kpc>>
  /\ UNCHANGED <<avars, lvars, rvars, pvars, fvars, uvars, wvars>>

\* the attach client leaves: ~d, Ctrl-D, SIGINT or a failed write end
\* attach_to_session, which shuts the socket down, and attach_session then
\* calls mark_detached (marks); a client that is killed only closes.
ClientLeave(c, marks) ==
  /\ peer[c] = "open"
  /\ peer' = [peer EXCEPT ![c] = "closed"]
  /\ json' = IF marks THEN "detached" ELSE json
  /\ UNCHANGED <<dpc, running, alive, active_clients, backlog, ring,
                 masterRead, lastChunk, readResult, shell, pty_errors,
                 winsize, ptyIn, sock, inbound, sends,
                 validated, sockFile, status, kpc>>
  /\ UNCHANGED <<avars, lvars, rvars, pvars, fvars, uvars, wvars>>

\* the shell process exits; from then on a read of the master returns 0
\* or fails with EIO, as the platform has it
ShellExit(how) ==
  /\ alive /\ shell = "alive"
  /\ shell' = how
  /\ UNCHANGED <<dpc, running, alive, active_clients, backlog, ring,
                 masterRead, lastChunk, readResult, pty_errors, winsize,
                 ptyIn, peer, sock, inbound, sends,
                 validated, json, sockFile, status, kpc>>
  /\ UNCHANGED <<avars, lvars, rvars, pvars, fvars, uvars, wvars>>

\* kill_session up to its sleep: Session::load, then SIGTERM.  handled: the
\* daemon's ctrlc handler catches SIGTERM (the crate's termination feature)
\* and clears running; otherwise SIGTERM ends the process.
KillStart(handled) ==
  /\ kpc = "idle"
  /\ IF json = "none"
     THEN /\ kpc' = "failed"
          /\ UNCHANGED <<dpc, running, alive, active_clients, backlog, ring,
                         masterRead, lastChunk, readResult, shell,
                         pty_errors, winsize, ptyIn, sock, inbound, json, sockFile, status>>
     ELSE IF ~alive
     THEN /\ kpc' = "failed"
          /\ cleanup
          /\ UNCHANGED <<dpc, running, alive, active_clients, backlog, ring,
                         masterRead, lastChunk, readResult, shell,
                         pty_errors, winsize, ptyIn, sock, inbound>>
     ELSE IF handled
     THEN /\ kpc' = "sleep"
          /\ running' = FALSE
          /\ UNCHANGED <<dpc, alive, active_clients, backlog, ring,
                         masterRead, lastChunk, readResult, shell,
                         pty_errors, winsize, ptyIn, sock, inbound, json, sockFile, status>>
     ELSE /\ kpc' = "sleep"
          /\ DaemonGone
          /\ UNCHANGED <<running, json, sockFile, status>>
  /\ handled => json # "none" /\ alive
  /\ UNCHANGED <<peer, sends, validated>>
  /\ UNCHANGED <<avars, lvars, rvars, pvars, fvars, uvars, wvars>>

\* kill_session after its sleep: SIGKILL if the PID is alive, then cleanup
KillFinish ==
  /\ kpc = "sleep"
  /\ kpc' = "ok"
  /\ IF alive THEN DaemonGone
     ELSE UNCHANGED <<dpc, alive, active_clients, backlog, ring, masterRead,
                      lastChunk, readResult, shell, pty_errors, winsize,
                      ptyIn, sock, inbound>>
  /\ cleanup
  /\ UNCHANGED <<running, peer, sends, validated>>
  /\ UNCHANGED <<avars, lvars, rvars, pvars, fvars, uvars, wvars>>

\* list_all finding the record of a dead daemon: Session::cleanup
ReapDead ==
  /\ json # "none" /\ ~alive
  /\ cleanup
  /\ UNCHANGED <<dpc, running, alive, active_clients, backlog, ring,
                 masterRead, lastChunk, readResult, shell, pty_errors,
                 winsize, ptyIn, peer, sock, inbound,
                 sends, validated, kpc>>
  /\ UNCHANGED <<avars, lvars, rvars, pvars, fvars, uvars, wvars>>

\* A step of the daemon's loop.
DaemonServes ==
  \/ DaemonAccept
  \/ \E n \in 1..MaxChunk : ReadChunk(n)
  \/ ReadWouldBlock
  \/ \E wok \in BOOLEAN : DaemonInput(wok)
  \/ DaemonFlush
  \/ \E due, zerr \in BOOLEAN : DaemonHealth(due, zerr)

\* Spec: the daemon serving its clients.
Next ==
  \/ DaemonServes
  \/ ValidateSessionHealth
  \/ AttachConnect
  \/ \E c \in ConnIds : ClientSend(c, KeyByte)
  \/ \E c \in ConnIds, sz \in Sizes : ClientSend(c, ResizeEnvelope(sz))
  \/ \E c \in ConnIds : ClientRead(c)
  \/ \E c \in ConnIds, marks \in BOOLEAN : ClientLeave(c, marks)

Spec == Init /\ [][Next]_vars

\* the calls on the daemon's end of the socket of an attached client begin
\* to fail with an error that is neither WouldBlock nor Interrupted nor
\* pipe-class
SocketFault(c) ==
  /\ alive /\ Attached(c) /\ peer[c] = "open"
  /\ faulty = {}
  /\ faulty' = {c}
  /\ UNCHANGED <<dvars, avars, lvars, rvars, pvars, uvars, wvars>>

NextFaults ==
  \/ Next
  \/ \E c \in ConnIds : SocketFault(c)

\* the daemon serving its clients, with such errors
SpecFaults == Init /\ [][NextFaults]_vars

\* SpecLife: the end of the session.  The shell exits or the session is
\* killed while clients attach and leave; the shell writes nothing.
NextLife ==
  \/ DaemonAccept
  \/ DaemonStop
  \/ ReadWouldBlock
  \/ ReadZero
  \/ \E healthy \in BOOLEAN : ReadError(healthy)
  \/ \E wok \in BOOLEAN : DaemonInput(wok)
  \/ DaemonFlush
  \/ \E due, zerr \in BOOLEAN : DaemonHealth(due, zerr)
  \/ ValidateSessionHealth
  \/ AttachConnect
  \/ \E c \in ConnIds, marks \in BOOLEAN : ClientLeave(c, marks)
  \/ \E how \in {"eof", "eio"} : ShellExit(how)
  \/ \E handled \in BOOLEAN : KillStart(handled)
  \/ KillFinish
  \/ ReapDead

SpecLife == Init /\ [][NextLife]_vars

\* The daemon's loop keeps turning while the process exists: weak fairness
\* of the daemon's steps.  In every phase of the loop a handler is enabled
\* (DaemonCanStep), and the daemon's steps are the steps that move dpc
\* (DaemonTurn).
DaemonCanStep == alive /\ dpc # "done"
DaemonTurn == alive /\ dpc' # dpc
DaemonFair == []<>(~DaemonCanStep) \/ []<><<DaemonTurn>>_vars

\* A client whose socket holds output reads it.
FairSpec == Spec /\ DaemonFair /\ \A c \in ConnIds : WF_vars(ClientRead(c))

\* A kill_session that sleeps wakes up.
FairLife == SpecLife /\ DaemonFair /\ WF_vars(KillFinish)

TypeOK ==
  /\ dpc \in {"accept", "read", "input", "flush", "health", "done"}
  /\ masterRead \in 0..MaxMaster
  /\ pty_errors \in 0..MaxConsecutiveErrors
  /\ \A c \in AllConns : Len(sock[c]) <= SockCap

(***************************************************************************)
(* SpecAttach: one attach_to_session call, from set_raw_mode on.  The main *)
(* thread runs handle_input_loop; the socket-to-stdout thread pumps the    *)
(* session's output.  Terminal ioctls on the caller terminal succeed.      *)
(***************************************************************************)
\* the keys: Enter, tilde, the letters d, s and h, another key, Ctrl-D
Keys == {"cr", "~", "d", "s", "h", "x", "eot"}
\* byte == b'\r' || byte == b'\n'
IsNewline(byte) == byte \in {"cr", "lf"}

\* process_input, the loop over the bytes of one read.  st is
\* [detach, switch, scroll, fwd, als, es]; a detach, switch or scroll key
\* ends the loop and the rest of the buffer is dropped.
RECURSIVE ProcessBytes(_, _)
ProcessBytes(buf, st) ==
  IF buf = <<>> THEN st
  ELSE LET byte == Head(buf)
       IN IF byte = "eot" THEN [st EXCEPT !.detach = TRUE]
          ELSE IF st.es = 0
          THEN IF st.als /\ byte = "~"
               THEN ProcessBytes(Tail(buf), [st EXCEPT !.es = 1])
               ELSE ProcessBytes(Tail(buf),
                      [st EXCEPT !.fwd = Append(@, byte),
                                 !.als = IsNewline(byte)])
          ELSE IF byte = "d" THEN [st EXCEPT !.detach = TRUE]
          ELSE IF byte = "s" THEN [st EXCEPT !.switch = TRUE]
          ELSE IF byte = "h" THEN [st EXCEPT !.scroll = TRUE]
          ELSE IF byte = "~"
          THEN ProcessBytes(Tail(buf),
                 [st EXCEPT !.fwd = Append(@, "~"), !.es = 0, !.als = FALSE])
          ELSE ProcessBytes(Tail(buf),
                 [st EXCEPT !.fwd = @ \o <<"~", byte>>, !.es = 0,
                            !.als = IsNewline(byte)])

\* a process_input that takes every read to begin at a line start
process_input_any_line(buf, als, es, timedOut) ==
  ProcessBytes(buf,
    [detach |-> FALSE, switch |-> FALSE, scroll |-> FALSE,
     fwd |-> <<>>, als |-> TRUE, es |-> es])
\* process_input; timedOut: the held tilde is older than a second
process_input(buf, als, es, timedOut) ==
  LET expired == es = 1 /\ timedOut
  IN ProcessBytes(buf,
       [detach |-> FALSE, switch |-> FALSE, scroll |-> FALSE,
        fwd |-> IF expired THEN <<"~">> ELSE <<>>,
        als |-> als, es |-> IF expired THEN 0 ELSE es])

\* a write on the attach client's socket fails once the daemon's end is
\* closed
SocketWritable == daemonEnd = "open" /\ clientEnd = "open"

\* attach_to_session: set_raw_mode
SetRawMode ==
  /\ apc = "raw"
  /\ tty' = "raw"
  /\ rawSet' = TRUE
  /\ apc' = "clone_resize"
  /\ UNCHANGED <<attach_running, paused, pump, held, daemonEnd, clientEnd,
                 fromDaemon, stdin, stdinEof, typed, at_line_start,
                 escape_state, data_to_forward, forwarded, result>>
  /\ UNCHANGED <<dvars, lvars, rvars, pvars, fvars, uvars, wvars>>

\* attach_to_session: socket.try_clone()? for the resize monitor; ok: the
\* descriptor could be duplicated
CloneForResize(ok) ==
  /\ apc = "clone_resize"
  /\ IF ok THEN apc' = "clone_pump" /\ result' = result
     ELSE apc' = "returned" /\ result' = "err"
  /\ UNCHANGED <<tty, rawSet, attach_running, paused, pump, held, daemonEnd,
                 clientEnd, fromDaemon, stdin, stdinEof, typed,
                 at_line_start, escape_state, data_to_forward, forwarded>>
  /\ UNCHANGED <<dvars, lvars, rvars, pvars, fvars, uvars, wvars>>

\* attach_to_session: socket.try_clone()? and spawn_socket_to_stdout_thread
CloneForPump(ok) ==
  /\ apc = "clone_pump"
  /\ IF ok THEN apc' = "loop" /\ pump' = "run" /\ result' = result
     ELSE apc' = "returned" /\ pump' = pump /\ result' = "err"
  /\ UNCHANGED <<tty, rawSet, attach_running, paused, held, daemonEnd,
                 clientEnd, fromDaemon, stdin, stdinEof, typed,
                 at_line_start, escape_state, data_to_forward, forwarded>>
  /\ UNCHANGED <<dvars, lvars, rvars, pvars, fvars, uvars, wvars>>

\* handle_input_loop, the head of the loop: break when running is false,
\* else poll stdin
LoopHead ==
  /\ apc = "loop"
  /\ apc' = IF attach_running THEN "poll" ELSE "cleanup"
  /\ UNCHANGED <<tty, rawSet, attach_running, paused, pump, held, daemonEnd,
                 clientEnd, fromDaemon, stdin, stdinEof, typed,
                 at_line_start, escape_state, data_to_forward, forwarded,
                 result>>
  /\ UNCHANGED <<dvars, lvars, rvars, pvars, fvars, uvars, wvars>>

\* handle_input_loop: poll timed out, nothing on stdin
PollTimeout ==
  /\ apc = "poll"
  /\ stdin = <<>> /\ ~stdinEof
  /\ apc' = "loop"
  /\ UNCHANGED <<tty, rawSet, attach_running, paused, pump, held, daemonEnd,
                 clientEnd, fromDaemon, stdin, stdinEof, typed,
                 at_line_start, escape_state, data_to_forward, forwarded,
                 result>>
  /\ UNCHANGED <<dvars, lvars, rvars, pvars, fvars, uvars, wvars>>

\* handle_input_loop: poll or read failed (not EINTR): return Err
InputError ==
  /\ apc = "poll"
  /\ apc' = "cleanup"
  /\ result' = "err"
  /\ UNCHANGED <<tty, rawSet, attach_running, paused, pump, held, daemonEnd,
                 clientEnd, fromDaemon, stdin, stdinEof, typed,
                 at_line_start, escape_state, data_to_forward, forwarded>>
  /\ UNCHANGED <<dvars, lvars, rvars, pvars, fvars, uvars, wvars>>

\* handle_input_loop: read returned 0, stdin is at end of file
ReadEof ==
  /\ apc = "poll"
  /\ stdin = <<>> /\ stdinEof
  /\ attach_running' = FALSE
  /\ apc' = "cleanup"
  /\ UNCHANGED <<tty, rawSet, paused, pump, held, daemonEnd, clientEnd,
                 fromDaemon, stdin, stdinEof, typed, at_line_start,
                 escape_state, data_to_forward, forwarded, result>>
  /\ UNCHANGED <<dvars, lvars, rvars, pvars, fvars, uvars, wvars>>

\* handle_input_loop: read n keys from stdin, process_input, then detach,
\* open the switcher or the scrollback viewer, or forward the data
ReadStdin(n, timedOut) ==
  /\ apc = "poll"
  /\ n \in 1..Len(stdin)
  /\ LET p == process_input(Take(stdin, n), at_line_start, escape_state,
                            timedOut)
     IN /\ stdin' = Drop(stdin, n)
        /\ at_line_start' = p.als
        /\ escape_state' = p.es
        /\ IF p.detach
           THEN /\ attach_running' = FALSE
                /\ apc' = "cleanup"
                /\ UNCHANGED <<tty, paused, data_to_forward, forwarded>>
           ELSE IF p.switch
           THEN /\ paused' = TRUE
                /\ tty' = "original"
                /\ apc' = "switcher"
                /\ data_to_forward' = p.fwd
                /\ UNCHANGED <<attach_running, forwarded>>
           ELSE IF p.scroll
           THEN /\ tty' = "original"
                /\ apc' = "viewer"
                /\ data_to_forward' = p.fwd
                /\ UNCHANGED <<attach_running, paused, forwarded>>
           ELSE /\ apc' = IF p.fwd = <<>> \/ SocketWritable
                          THEN "loop" ELSE "cleanup"
                /\ forwarded' = IF SocketWritable THEN p.fwd ELSE <<>>
                /\ UNCHANGED <<tty, attach_running, paused, data_to_forward>>
  /\ UNCHANGED <<rawSet, pump, held, daemonEnd, clientEnd, fromDaemon,
                 stdinEof, typed, result>>
  /\ UNCHANGED <<dvars, lvars, rvars, pvars, fvars, uvars, wvars>>

\* handle_input_loop after show_switcher returned sw: an error, a session
\* to switch to, or Continue
SwitcherDone(sw) ==
  /\ apc = "switcher"
  /\ IF sw = "err"
     THEN /\ apc' = "cleanup"
          /\ result' = "err"
          /\ UNCHANGED <<tty, paused, at_line_start, escape_state,
                         forwarded>>
     ELSE IF sw = "to"
     THEN /\ tty' = "raw"
          /\ paused' = FALSE
          /\ apc' = "cleanup"
          /\ result' = "switch"
          /\ UNCHANGED <<at_line_start, escape_state, forwarded>>
     ELSE /\ tty' = "raw"
          /\ paused' = FALSE
          /\ at_line_start' = TRUE
          /\ escape_state' = 0
          /\ IF SocketWritable
             THEN /\ apc' = "loop"
                  /\ forwarded' = <<"refresh">> \o data_to_forward
                  /\ result' = result
             ELSE /\ apc' = "cleanup"
                  /\ forwarded' = <<>>
                  /\ result' = "err"
  /\ data_to_forward' = <<>>
  /\ UNCHANGED <<rawSet, attach_running, pump, held, daemonEnd, clientEnd,
                 fromDaemon, stdin, stdinEof, typed>>
  /\ UNCHANGED <<dvars, lvars, rvars, pvars, fvars, uvars, wvars>>

\* show_scrollback_viewer after the viewer ran: raw mode again, send_refresh
ViewerDone ==
  /\ apc = "viewer"
  /\ tty' = "raw"
  /\ IF SocketWritable
     THEN /\ apc' = "loop"
          /\ forwarded' = <<"ff">> \o data_to_forward
          /\ result' = result
          /\ at_line_start' = TRUE
          /\ escape_state' = 0
     ELSE /\ apc' = "cleanup"
          /\ forwarded' = <<>>
          /\ result' = "err"
          /\ UNCHANGED <<at_line_start, escape_state>>
  /\ data_to_forward' = <<>>
  /\ UNCHANGED <<rawSet, attach_running, paused, pump, held, daemonEnd,
                 clientEnd, fromDaemon, stdin, stdinEof, typed>>
  /\ UNCHANGED <<dvars, lvars, rvars, pvars, fvars, uvars, wvars>>

\* attach_to_session after the loop: clear running, shut the socket down
CleanupShutdown ==
  /\ apc = "cleanup"
  /\ attach_running' = FALSE
  /\ clientEnd' = "shut"
  /\ apc' = "join"
  /\ UNCHANGED <<tty, rawSet, paused, pump, held, daemonEnd, fromDaemon,
                 stdin, stdinEof, typed, at_line_start, escape_state,
                 data_to_forward, forwarded, result>>
  /\ UNCHANGED <<dvars, lvars, rvars, pvars, fvars, uvars, wvars>>

\* attach_to_session: the thread is joined, restore_terminal, return result
JoinAndRestore ==
  /\ apc = "join"
  /\ pump = "exited"
  /\ tty' = "original"
  /\ apc' = "returned"
  /\ UNCHANGED <<rawSet, attach_running, paused, pump, held, daemonEnd,
                 clientEnd, fromDaemon, stdin, stdinEof, typed,
                 at_line_start, escape_state, data_to_forward, forwarded,
                 result>>
  /\ UNCHANGED <<dvars, lvars, rvars, pvars, fvars, uvars, wvars>>

\* socket-to-stdout thread: the loop condition is false
PumpStop ==
  /\ pump = "run"
  /\ ~attach_running
  /\ pump' = "exited"
  /\ UNCHANGED <<apc, tty, rawSet, attach_running, paused, held, daemonEnd,
                 clientEnd, fromDaemon, stdin, stdinEof, typed,
                 at_line_start, escape_state, data_to_forward, forwarded,
                 result>>
  /\ UNCHANGED <<dvars, lvars, rvars, pvars, fvars, uvars, wvars>>

\* socket-to-stdout thread: not paused, write the held data to stdout
PumpFlushHeld ==
  /\ pump = "run"
  /\ attach_running /\ ~paused /\ held > 0
  /\ held' = 0
  /\ UNCHANGED <<apc, tty, rawSet, attach_running, paused, pump, daemonEnd,
                 clientEnd, fromDaemon, stdin, stdinEof, typed,
                 at_line_start, escape_state, data_to_forward, forwarded,
                 result>>
  /\ UNCHANGED <<dvars, lvars, rvars, pvars, fvars, uvars, wvars>>

\* socket-to-stdout thread: a read returned data; held while paused, else
\* written to stdout behind what was held
PumpRead ==
  /\ pump = "run"
  /\ attach_running /\ fromDaemon > 0
  /\ held' = IF paused THEN held + fromDaemon ELSE 0
  /\ fromDaemon' = 0
  /\ UNCHANGED <<apc, tty, rawSet, attach_running, paused, pump, daemonEnd,
                 clientEnd, stdin, stdinEof, typed, at_line_start,
                 escape_state, data_to_forward, forwarded, result>>
  /\ UNCHANGED <<dvars, lvars, rvars, pvars, fvars, uvars, wvars>>

\* socket-to-stdout thread: a read returned 0, the socket is closed; the
\* thread ends and leaves the running flag as it is
PumpEof ==
  /\ pump = "run"
  /\ attach_running /\ fromDaemon = 0
  /\ daemonEnd = "closed" \/ clientEnd = "shut"
  /\ pump' = "exited"
  /\ UNCHANGED <<apc, tty, rawSet, attach_running, paused, held, daemonEnd,
                 clientEnd, fromDaemon, stdin, stdinEof, typed,
                 at_line_start, escape_state, data_to_forward, forwarded,
                 result>>
  /\ UNCHANGED <<dvars, lvars, rvars, pvars, fvars, uvars, wvars>>

\* the user types a key
UserTypes(k) ==
  /\ apc # "returned" /\ ~stdinEof
  /\ typed < MaxKeys
  /\ stdin' = Append(stdin, k)
  /\ typed' = typed + 1
  /\ UNCHANGED <<apc, tty, rawSet, attach_running, paused, pump, held,
                 daemonEnd, clientEnd, fromDaemon, stdinEof, at_line_start,
                 escape_state, data_to_forward, forwarded, result>>
  /\ UNCHANGED <<dvars, lvars, rvars, pvars, fvars, uvars, wvars>>

\* stdin reaches end of file
StdinCloses ==
  /\ apc # "returned" /\ ~stdinEof
  /\ stdinEof' = TRUE
  /\ UNCHANGED <<apc, tty, rawSet, attach_running, paused, pump, held,
                 daemonEnd, clientEnd, fromDaemon, stdin, typed,
                 at_line_start, escape_state, data_to_forward, forwarded,
                 result>>
  /\ UNCHANGED <<dvars, lvars, rvars, pvars, fvars, uvars, wvars>>

\* SIGINT: the ctrlc handler clears running
SigInt ==
  /\ apc # "returned" /\ attach_running
  /\ attach_running' = FALSE
  /\ UNCHANGED <<apc, tty, rawSet, paused, pump, held, daemonEnd, clientEnd,
                 fromDaemon, stdin, stdinEof, typed, at_line_start,
                 escape_state, data_to_forward, forwarded, result>>
  /\ UNCHANGED <<dvars, lvars, rvars, pvars, fvars, uvars, wvars>>

\* the daemon writes output to the client's socket
DaemonWrites ==
  /\ daemonEnd = "open" /\ clientEnd = "open"
  /\ fromDaemon + held < MaxOut
  /\ fromDaemon' = fromDaemon + 1
  /\ UNCHANGED <<apc, tty, rawSet, attach_running, paused, pump, held,
                 daemonEnd, clientEnd, stdin, stdinEof, typed, at_line_start,
                 escape_state, data_to_forward, forwarded, result>>
  /\ UNCHANGED <<dvars, lvars, rvars, pvars, fvars, uvars, wvars>>

\* the daemon's end of the socket closes: the daemon removed the client,
\* exited or was killed
DaemonCloses ==
  /\ daemonEnd = "open"
  /\ daemonEnd' = "closed"
  /\ UNCHANGED <<apc, tty, rawSet, attach_running, paused, pump, held,
                 clientEnd, fromDaemon, stdin, stdinEof, typed,
                 at_line_start, escape_state, data_to_forward, forwarded,
                 result>>
  /\ UNCHANGED <<dvars, lvars, rvars, pvars, fvars, uvars, wvars>>

\* attach_session after attach_to_session returned without a target: its
\* error is returned, otherwise mark_detached and Ok
ManagerReturn ==
  /\ apc = "returned" /\ attach_result = "none"
  /\ result # "switch"
  /\ attach_result' = IF result = "err" THEN "err" ELSE "ok"
  /\ UNCHANGED sigint_set
  /\ UNCHANGED <<dvars, avars, rvars, pvars, fvars, uvars, wvars>>

\* attach_session after attach_to_session returned a target: mark_detached
\* and the loop again: Session::load and validate_session_health of the
\* target, mark_attached, attach_to_session: connect, send_resize_command,
\* ctrlc::set_handler, which returns an error when the process has
\* registered a handler before
SwitchAttach ==
  /\ apc = "returned" /\ attach_result = "none"
  /\ result = "switch"
  /\ IF sigint_set
     THEN /\ attach_result' = "err"
          /\ UNCHANGED avars
     ELSE /\ attach_result' = "none"
          /\ apc' = "raw"
          /\ tty' = "original"
          /\ rawSet' = FALSE
          /\ attach_running' = TRUE
          /\ paused' = FALSE
          /\ pump' = "none"
          /\ held' = 0
          /\ daemonEnd' = "open"
          /\ clientEnd' = "open"
          /\ fromDaemon' = 0
          /\ at_line_start' = TRUE
          /\ escape_state' = 0
          /\ data_to_forward' = <<>>
          /\ forwarded' = <<>>
          /\ result' = "none"
          /\ UNCHANGED <<stdin, stdinEof, typed>>
  /\ sigint_set' = TRUE
  /\ UNCHANGED <<dvars, rvars, pvars, fvars, uvars, wvars>>

\* the main thread of attach_to_session
MainThread ==
  \/ SetRawMode
  \/ \E ok \in BOOLEAN : CloneForResize(ok)
  \/ \E ok \in BOOLEAN : CloneForPump(ok)
  \/ LoopHead
  \/ PollTimeout
  \/ InputError
  \/ ReadEof
  \/ \E n \in 1..MaxKeys, timedOut \in BOOLEAN : ReadStdin(n, timedOut)
  \/ \E sw \in {"err", "to", "continue"} : SwitcherDone(sw)
  \/ ViewerDone
  \/ CleanupShutdown
  \/ JoinAndRestore
  \/ ManagerReturn
  \/ SwitchAttach

\* the socket-to-stdout thread
PumpThread == PumpStop \/ PumpFlushHeld \/ PumpRead \/ PumpEof

NextAttach ==
  \/ MainThread
  \/ PumpThread
  \/ \E k \in Keys : UserTypes(k)
  \/ StdinCloses
  \/ SigInt
  \/ DaemonWrites
  \/ DaemonCloses

SpecAttach == Init /\ [][NextAttach]_vars

\* Both threads are scheduled; nothing obliges the user to type.
FairAttach == SpecAttach /\ WF_vars(MainThread) /\ WF_vars(PumpThread)

(***************************************************************************)
(* SpecRegistry: the sessions of one user.  The operations of              *)
(* SessionManager and Session work on sessions/<id>.json, sockets/<id>.sock*)
(* and sessions/<id>.status; every daemon knows the id it was created with *)
(* and removes that id's files when it ends.  A PID whose daemon is gone   *)
(* can be handed to an unrelated process of the machine.                   *)
(***************************************************************************)
\* Session::is_process_alive: kill(pid, 0) succeeds for any live process
is_process_alive(pid) == pid # 0 /\ (daemonOf[pid] # 0 \/ pid \in foreign)
\* socket_path.exists() && is_socket_healthy: a connect succeeds when the
\* process that bound the file still listens
is_socket_healthy(id) == sockBound[id] # 0 /\ daemonOf[sockBound[id]] # 0

\* Option<String>::None of Session.name
NoName == [some |-> FALSE, text |-> <<>>]
\* the names given to rename_session
NameTexts == {<<" ">>, <<"a", " ">>}

\* str::trim
RECURSIVE TrimLeft(_)
TrimLeft(text) ==
  IF text # <<>> /\ Head(text) = " " THEN TrimLeft(Tail(text)) ELSE text
RECURSIVE TrimRight(_)
TrimRight(text) ==
  IF text # <<>> /\ text[Len(text)] = " "
  THEN TrimRight(SubSeq(text, 1, Len(text) - 1)) ELSE text
trim(text) == TrimRight(TrimLeft(text))

\* the files of the registry as one value, now and after the step
Reg == [meta |-> meta, sockBound |-> sockBound, statusFile |-> statusFile,
        names |-> names, flags |-> flags]
RegNext == [meta |-> meta', sockBound |-> sockBound',
            statusFile |-> statusFile', names |-> names', flags |-> flags']
SetReg(reg) ==
  /\ meta' = reg.meta
  /\ sockBound' = reg.sockBound
  /\ statusFile' = reg.statusFile
  /\ names' = reg.names
  /\ flags' = reg.flags

\* the result of a call: the operation, its id, Ok or the error, the step
\* of a create that failed or what a cleanup found, the name of a rename
Outcome(op, id, res, step, arg) ==
  [op |-> op, id |-> id, res |-> res, step |-> step, arg |-> arg]
NoOutcome == Outcome("none", 0, "", "", <<>>)

AnyFile(reg, id) ==
  reg.meta[id] # 0 \/ reg.sockBound[id] # 0 \/ reg.statusFile[id]

\* a cleanup whose remove_file calls are not guarded by exists()
cleanup_unguarded(reg, id) ==
  [reg |-> [reg EXCEPT !.meta[id] = 0, !.sockBound[id] = 0,
                       !.statusFile[id] = FALSE, !.names[id] = NoName,
                       !.flags[id] = FALSE],
   res |-> IF reg.meta[id] # 0 /\ reg.sockBound[id] # 0
              /\ reg.statusFile[id]
           THEN "ok" ELSE "IoError"]

\* Session::cleanup: each of the three files is removed if it exists
session_cleanup(reg, id) ==
  [reg |-> [reg EXCEPT !.meta[id] = 0, !.sockBound[id] = 0,
                       !.statusFile[id] = FALSE, !.names[id] = NoName,
                       !.flags[id] = FALSE],
   res |-> "ok"]

\* a load that reads the file without testing that it exists
load_unchecked(reg, id) ==
  IF reg.meta[id] = 0 THEN [reg |-> reg, res |-> "Io"]
  ELSE IF ~is_process_alive(reg.meta[id])
  THEN [reg |-> session_cleanup(reg, id).reg, res |-> "SessionNotFound"]
  ELSE [reg |-> reg, res |-> "ok"]

\* Session::load: no file: SessionNotFound; the recorded PID is not alive:
\* cleanup and SessionNotFound; otherwise the record
load(reg, id) ==
  IF reg.meta[id] = 0 THEN [reg |-> reg, res |-> "SessionNotFound"]
  ELSE IF ~is_process_alive(reg.meta[id])
  THEN [reg |-> session_cleanup(reg, id).reg, res |-> "SessionNotFound"]
  ELSE [reg |-> reg, res |-> "ok"]

\* SessionManager::validate_session_health of a loaded record
validate_session_health(reg, id) ==
  /\ is_process_alive(reg.meta[id])
  /\ reg.sockBound[id] # 0
  /\ daemonOf[reg.sockBound[id]] # 0

\* the records a listing keeps when it looks at the PID only
AliveIds(m, sb, dm, fg) ==
  {id \in SessionIds : m[id] # 0 /\ (dm[m[id]] # 0 \/ m[id] \in fg)}

\* the records list_all keeps, as a set of ids
HealthyIds(m, sb, dm, fg) ==
  {id \in SessionIds :
     /\ m[id] # 0 /\ (dm[m[id]] # 0 \/ m[id] \in fg)
     /\ sb[id] # 0 /\ dm[sb[id]] # 0}

\* sessions.sort_by(created_at): PIDs are handed out in creation order
RECURSIVE SortByCreation(_, _)
SortByCreation(ids, m) ==
  IF ids = {} THEN <<>>
  ELSE LET first == CHOOSE id \in ids : \A o \in ids : m[id] <= m[o]
       IN <<[id |-> first, pid |-> m[first]]>>
            \o SortByCreation(ids \ {first}, m)

\* the steps of a create that can fail, "none": every step succeeds
CreateSteps ==
  {"none", "fork1", "fork2", "pty", "winsize", "bind", "fork3", "exec"}

\* create_session_with_name drawing id.  The first fork failing returns the
\* error.  Otherwise the caller sleeps and returns Session::load(id), while
\* the daemon opens the PTY, sets its size, binds the socket
\* (create_listener removes a file that is in the way), forks the shell,
\* saves the record and serves; a step of the daemon that fails ends the
\* daemon there.  The shell's execvp runs in the child of the last fork,
\* after which the daemon has saved the record and keeps serving.
CreateSession(id, fail) ==
  /\ spawned < MaxPids
  /\ LET pid == spawned + 1
         bound == fail \in {"fork3", "exec", "none"}
         saved == fail \in {"exec", "none"}
         made == [Reg EXCEPT
                    !.sockBound[id] =
                       IF bound THEN pid
                       ELSE IF fail = "bind" THEN 0 ELSE @,
                    !.meta[id] = IF saved THEN pid ELSE @,
                    !.names[id] = IF saved THEN NoName ELSE @,
                    !.flags[id] = IF saved THEN FALSE ELSE @]
     IN /\ daemonOf' = IF saved THEN [daemonOf EXCEPT ![pid] = id]
                       ELSE daemonOf
        /\ spawned' = IF bound THEN pid ELSE spawned
        /\ IF fail = "fork1"
           THEN /\ SetReg(Reg)
                /\ outcome' = Outcome("create", id, "ForkError", fail, <<>>)
           ELSE LET found == IF saved THEN [reg |-> made, res |-> "ok"]
                             ELSE load(made, id)
                IN /\ SetReg(found.reg)
                   /\ outcome' = Outcome("create", id, found.res, fail, <<>>)
  /\ UNCHANGED <<foreign, client>>
  /\ listed' = <<>>
  /\ UNCHANGED <<dvars, avars, lvars, pvars, fvars, uvars, wvars>>

\* SessionManager::get_session
Load(id) ==
  /\ LET found == load(Reg, id)
     IN /\ SetReg(found.reg)
        /\ outcome' = Outcome("info", id, found.res, "", <<>>)
  /\ UNCHANGED <<daemonOf, spawned, foreign, client>>
  /\ listed' = <<>>
  /\ UNCHANGED <<dvars, avars, lvars, pvars, fvars, uvars, wvars>>

\* Session::list_all: keep the healthy records, clean up the others, sort
ListAll ==
  /\ LET keep == HealthyIds(meta, sockBound, daemonOf, foreign)
         dead == {id \in SessionIds : meta[id] # 0} \ keep
         Kept(f, gone) == [id \in SessionIds |->
                             IF id \in dead THEN gone ELSE f[id]]
     IN /\ listed' = SortByCreation(keep, meta)
        /\ meta' = Kept(meta, 0)
        /\ sockBound' = Kept(sockBound, 0)
        /\ statusFile' = Kept(statusFile, FALSE)
        /\ names' = Kept(names, NoName)
        /\ flags' = Kept(flags, FALSE)
        /\ outcome' = Outcome("list", 0, "ok",
                              IF dead = {} THEN "kept" ELSE "cleaned", <<>>)
  /\ UNCHANGED <<daemonOf, spawned, foreign, client>>
  /\ UNCHANGED <<dvars, avars, lvars, pvars, fvars, uvars, wvars>>

\* attach_session up to the connect of attach_to_session: Session::load,
\* validate_session_health (a record that fails it is cleaned up),
\* mark_attached; the daemon accepts and writes the client count
AttachSession(id) ==
  /\ client.id = 0
  /\ LET found == load(Reg, id)
     IN IF found.res # "ok"
        THEN /\ SetReg(found.reg)
             /\ outcome' = Outcome("attach", id, found.res, "", <<>>)
             /\ UNCHANGED client
        ELSE IF ~validate_session_health(Reg, id)
        THEN /\ SetReg(session_cleanup(Reg, id).reg)
             /\ outcome' = Outcome("attach", id, "SessionNotFound", "", <<>>)
             /\ UNCHANGED client
        ELSE /\ SetReg([Reg EXCEPT !.flags[id] = TRUE,
                                   !.statusFile[id] = TRUE])
             /\ client' = [id |-> id, pid |-> meta[id], name |-> names[id]]
             /\ outcome' = Outcome("attach", id, "attached", "", <<>>)
  /\ UNCHANGED <<daemonOf, spawned, foreign>>
  /\ listed' = <<>>
  /\ UNCHANGED <<dvars, avars, lvars, pvars, fvars, uvars, wvars>>

\* attach_session after attach_to_session returned: mark_detached saves the
\* Session the attach loaded; a daemon that still serves writes the count
DetachSession(id) ==
  /\ client.id = id
  /\ SetReg([Reg EXCEPT !.meta[id] = client.pid,
                        !.names[id] = client.name,
                        !.flags[id] = FALSE,
                        !.statusFile[id] = is_socket_healthy(id) \/ @])
  /\ client' = [id |-> 0, pid |-> 0, name |-> NoName]
  /\ outcome' = Outcome("detach", id, "ok", "", <<>>)
  /\ UNCHANGED <<daemonOf, spawned, foreign>>
  /\ listed' = <<>>
  /\ UNCHANGED <<dvars, avars, lvars, pvars, fvars, uvars, wvars>>

\* kill_session: Session::load (which cleans up a dead record and fails),
\* SIGTERM and SIGKILL to the recorded PID, Session::cleanup
KillSession(id) ==
  /\ LET found == load(Reg, id)
     IN IF found.res # "ok"
        THEN /\ SetReg(found.reg)
             /\ outcome' = Outcome("kill", id, found.res, "", <<>>)
             /\ UNCHANGED <<daemonOf, foreign>>
        ELSE /\ daemonOf' = [daemonOf EXCEPT ![meta[id]] = 0]
             /\ foreign' = foreign \ {meta[id]}
             /\ SetReg(session_cleanup(Reg, id).reg)
             /\ outcome' = Outcome("kill", id, "ok", "", <<>>)
  /\ UNCHANGED <<spawned, client>>
  /\ listed' = <<>>
  /\ UNCHANGED <<dvars, avars, lvars, pvars, fvars, uvars, wvars>>

\* the name rename_session stores for new_name
NewName(text) ==
  IF trim(text) = <<>> THEN NoName ELSE [some |-> TRUE, text |-> text]

\* a rename that stores the trimmed name
rename_trimmed(reg, id, text) ==
  LET found == load(reg, id)
  IN IF found.res # "ok" THEN found
     ELSE [reg |-> [reg EXCEPT !.names[id] =
                      IF trim(text) = <<>> THEN NoName
                      ELSE [some |-> TRUE, text |-> trim(text)]],
           res |-> "ok"]

\* SessionManager::rename_session: load, set the name, save
rename_session(reg, id, text) ==
  LET found == load(reg, id)
  IN IF found.res # "ok" THEN found
     ELSE [reg |-> [reg EXCEPT !.names[id] = NewName(text)], res |-> "ok"]

RenameSession(id, text) ==
  /\ LET done == rename_session(Reg, id, text)
     IN /\ SetReg(done.reg)
        /\ outcome' = Outcome("rename", id, done.res, "", text)
  /\ UNCHANGED <<daemonOf, spawned, foreign, client>>
  /\ listed' = <<>>
  /\ UNCHANGED <<dvars, avars, lvars, pvars, fvars, uvars, wvars>>

\* Session::cleanup called on its own
Cleanup(id) ==
  /\ LET done == session_cleanup(Reg, id)
     IN /\ SetReg(done.reg)
        /\ outcome' = Outcome("cleanup", id, done.res,
                              IF AnyFile(Reg, id) THEN "removed"
                              ELSE "absent", <<>>)
  /\ UNCHANGED <<daemonOf, spawned, foreign, client>>
  /\ listed' = <<>>
  /\ UNCHANGED <<dvars, avars, lvars, pvars, fvars, uvars, wvars>>

\* a daemon ends by itself: Session::cleanup of its session id, exit
DaemonExits(pid) ==
  /\ daemonOf[pid] # 0
  /\ SetReg(session_cleanup(Reg, daemonOf[pid]).reg)
  /\ daemonOf' = [daemonOf EXCEPT ![pid] = 0]
  /\ outcome' = NoOutcome
  /\ UNCHANGED <<spawned, foreign, client>>
  /\ listed' = <<>>
  /\ UNCHANGED <<dvars, avars, lvars, pvars, fvars, uvars, wvars>>

\* a daemon is killed from outside and leaves its files behind
DaemonCrashes(pid) ==
  /\ daemonOf[pid] # 0
  /\ daemonOf' = [daemonOf EXCEPT ![pid] = 0]
  /\ outcome' = NoOutcome
  /\ UNCHANGED <<meta, sockBound, statusFile, names, flags, spawned,
                 foreign, client>>
  /\ listed' = <<>>
  /\ UNCHANGED <<dvars, avars, lvars, pvars, fvars, uvars, wvars>>

\* the PID of a daemon that is gone is given to another process
PidReused(pid) ==
  /\ pid <= spawned
  /\ daemonOf[pid] = 0
  /\ pid \notin foreign
  /\ foreign' = foreign \cup {pid}
  /\ outcome' = NoOutcome
  /\ UNCHANGED <<meta, sockBound, statusFile, names, flags, daemonOf,
                 spawned, client>>
  /\ listed' = <<>>
  /\ UNCHANGED <<dvars, avars, lvars, pvars, fvars, uvars, wvars>>

NextRegistry ==
  \/ \E id \in SessionIds, fail \in CreateSteps : CreateSession(id, fail)
  \/ \E id \in SessionIds : Load(id)
  \/ ListAll
  \/ \E id \in SessionIds : AttachSession(id)
  \/ \E id \in SessionIds : DetachSession(id)
  \/ \E id \in SessionIds : KillSession(id)
  \/ \E id \in SessionIds, text \in NameTexts : RenameSession(id, text)
  \/ \E id \in SessionIds : Cleanup(id)
  \/ \E pid \in Pids : DaemonExits(pid)
  \/ \E pid \in Pids : DaemonCrashes(pid)
  \/ \E pid \in Pids : PidReused(pid)

SpecRegistry == Init /\ [][NextRegistry]_vars

(***************************************************************************)
(* SpecPump: the socket-to-stdout thread of an attach client while the     *)
(* main thread sets and clears the paused flag.  The k-th byte the daemon  *)
(* sends is the number k.                                                  *)
(***************************************************************************)
\* ScrollbackHandler::add_data, and the same lines of the thread's normal
\* path: append, then drain the front down to the cap
add_data(buf, data, cap) ==
  LET all == buf \o data
  IN IF Len(all) > cap THEN Drop(all, Len(all) - cap) ELSE all

\* the thread's append of its held output: extend_from_slice alone
add_held(buf, data, cap) == buf \o data

\* the next n bytes of the socket
NextBytes(n) == [i \in 1..n |-> sock_read + i]

\* the head of the loop while paused: a read whose bytes are held
PumpHold(n) ==
  /\ pump_pc = "top" /\ pump_paused
  /\ sock_read + n <= MaxPumped
  /\ held_buffer' = held_buffer \o NextBytes(n)
  /\ sock_read' = sock_read + n
  /\ UNCHANGED <<pump_pc, pump_paused, stdout_bytes, scrollback>>
  /\ UNCHANGED <<dvars, avars, lvars, rvars, pvars, fvars, wvars>>

\* the head of the loop while not paused: held output is written to stdout
\* and appended to the scrollback, then the thread reads
PumpResume ==
  /\ pump_pc = "top" /\ ~pump_paused
  /\ stdout_bytes' = stdout_bytes \o held_buffer
  /\ scrollback' = IF held_buffer = <<>> THEN scrollback
                   ELSE add_held(scrollback, held_buffer, ScrollCap)
  /\ held_buffer' = <<>>
  /\ pump_pc' = "read"
  /\ UNCHANGED <<pump_paused, sock_read>>
  /\ UNCHANGED <<dvars, avars, lvars, rvars, pvars, fvars, wvars>>

\* socket.read of the normal path returns n bytes (0: WouldBlock): stdout
\* if not paused by now, else held; the scrollback in both cases
PumpReturn(n) ==
  /\ pump_pc = "read"
  /\ sock_read + n <= MaxPumped
  /\ IF n = 0
     THEN UNCHANGED <<stdout_bytes, held_buffer, scrollback>>
     ELSE /\ IF pump_paused
             THEN /\ held_buffer' = held_buffer \o NextBytes(n)
                  /\ UNCHANGED stdout_bytes
             ELSE /\ stdout_bytes' = stdout_bytes \o NextBytes(n)
                  /\ UNCHANGED held_buffer
          /\ scrollback' = add_data(scrollback, NextBytes(n), ScrollCap)
  /\ sock_read' = sock_read + n
  /\ pump_pc' = "top"
  /\ UNCHANGED pump_paused
  /\ UNCHANGED <<dvars, avars, lvars, rvars, pvars, fvars, wvars>>

\* handle_input_loop around the switcher: paused.store(v)
SetPaused(v) ==
  /\ pump_paused # v
  /\ pump_paused' = v
  /\ UNCHANGED <<pump_pc, held_buffer, stdout_bytes, scrollback, sock_read>>
  /\ UNCHANGED <<dvars, avars, lvars, rvars, pvars, fvars, wvars>>

NextPump ==
  \/ \E n \in 1..MaxPumpRead : PumpHold(n)
  \/ PumpResume
  \/ \E n \in 0..MaxPumpRead : PumpReturn(n)
  \/ \E v \in BOOLEAN : SetPaused(v)

SpecPump == Init /\ [][NextPump]_vars

(***************************************************************************)
(* SpecFiles: the JSON files of the registry while one process saves or    *)
(* cleans up and another lists or loads.  A call on the file system is one *)
(* step; the calls of the two processes interleave.                        *)
(***************************************************************************)
\* Session::save, fs::write up to and with its open: the file is created or
\* truncated (mark_attached, mark_detached and rename_session save a record
\* they loaded)
SaveBegin(id) ==
  /\ save_pc = "idle"
  /\ json_file[id] = "whole"
  /\ json_file' = [json_file EXCEPT ![id] = "empty"]
  /\ save_pc' = "write"
  /\ save_id' = id
  /\ UNCHANGED <<pid_alive, reader_pc, reader_id, dir_entries, sessions,
                 reader_result>>
  /\ UNCHANGED <<dvars, avars, lvars, rvars, pvars, fvars, uvars>>

\* Session::save, fs::write after its open: a write of a part of the JSON
\* or of all that is left of it; a file removed since stays removed
SaveWrite(all) ==
  /\ save_pc = "write"
  /\ json_file' = IF json_file[save_id] = "none" THEN json_file
                  ELSE [json_file EXCEPT
                          ![save_id] = IF all THEN "whole" ELSE "partial"]
  /\ save_pc' = IF all THEN "idle" ELSE "write"
  /\ UNCHANGED <<pid_alive, save_id, reader_pc, reader_id, dir_entries,
                 sessions, reader_result>>
  /\ UNCHANGED <<dvars, avars, lvars, rvars, pvars, fvars, uvars>>

\* the daemon of a session ends
ProcessDies(id) ==
  /\ pid_alive[id]
  /\ pid_alive' = [pid_alive EXCEPT ![id] = FALSE]
  /\ UNCHANGED <<json_file, save_pc, save_id, reader_pc, reader_id,
                 dir_entries, sessions, reader_result>>
  /\ UNCHANGED <<dvars, avars, lvars, rvars, pvars, fvars, uvars>>

\* Session::cleanup in a third process (kill_session, clean): remove_file
FileCleanup(id) ==
  /\ ~pid_alive[id]
  /\ json_file[id] # "none"
  /\ json_file' = [json_file EXCEPT ![id] = "none"]
  /\ UNCHANGED <<pid_alive, save_pc, save_id, reader_pc, reader_id,
                 dir_entries, sessions, reader_result>>
  /\ UNCHANGED <<dvars, avars, lvars, rvars, pvars, fvars, uvars>>

\* Session::list_all: fs::read_dir
ListBegin ==
  /\ reader_pc = "idle"
  /\ reader_pc' = "list"
  /\ dir_entries' = SelectSeq(Positions(MaxIds),
                              LAMBDA i : json_file[i] # "none")
  /\ sessions' = {}
  /\ reader_result' = "none"
  /\ UNCHANGED <<json_file, pid_alive, save_pc, save_id, reader_id>>
  /\ UNCHANGED <<dvars, avars, lvars, rvars, pvars, fvars, uvars>>

\* Session::list_all, one entry: read_to_string(&path)?, from_str, the
\* record kept if its process lives and cleaned up if not (the sockets are
\* not part of this specification); after the last entry Ok(sessions)
ListEntry ==
  /\ reader_pc = "list"
  /\ IF dir_entries = <<>>
     THEN /\ reader_result' = "ok"
          /\ reader_pc' = "idle"
          /\ UNCHANGED <<json_file, dir_entries, sessions>>
     ELSE LET id == Head(dir_entries)
          IN IF json_file[id] = "none"
             THEN /\ reader_result' = "Io"
                  /\ reader_pc' = "idle"
                  /\ dir_entries' = <<>>
                  /\ sessions' = {}
                  /\ UNCHANGED json_file
             ELSE /\ dir_entries' = Tail(dir_entries)
                  /\ sessions' = IF json_file[id] = "whole" /\ pid_alive[id]
                                 THEN sessions \cup {id} ELSE sessions
                  /\ json_file' = IF json_file[id] = "whole" /\ ~pid_alive[id]
                                  THEN [json_file EXCEPT ![id] = "none"]
                                  ELSE json_file
                  /\ UNCHANGED <<reader_pc, reader_result>>
  /\ UNCHANGED <<pid_alive, save_pc, save_id, reader_id>>
  /\ UNCHANGED <<dvars, avars, lvars, rvars, pvars, fvars, uvars>>

\* Session::load: path.exists()
LoadBegin(id) ==
  /\ reader_pc = "idle"
  /\ reader_id' = id
  /\ dir_entries' = <<>>
  /\ sessions' = {}
  /\ IF json_file[id] = "none"
     THEN reader_result' = "SessionNotFound" /\ UNCHANGED reader_pc
     ELSE reader_result' = "none" /\ reader_pc' = "load"
  /\ UNCHANGED <<json_file, pid_alive, save_pc, save_id>>
  /\ UNCHANGED <<dvars, avars, lvars, rvars, pvars, fvars, uvars>>

\* Session::load: read_to_string(path)?, from_str(&content)?, the check of
\* the process
LoadRead ==
  /\ reader_pc = "load"
  /\ reader_pc' = "idle"
  /\ reader_result' =
       CASE json_file[reader_id] = "none" -> "Io"
         [] json_file[reader_id] \in {"empty", "partial"} -> "Json"
         [] OTHER -> IF pid_alive[reader_id] THEN "ok"
                     ELSE "SessionNotFound"
  /\ json_file' = IF json_file[reader_id] = "whole" /\ ~pid_alive[reader_id]
                  THEN [json_file EXCEPT ![reader_id] = "none"]
                  ELSE json_file
  /\ UNCHANGED <<pid_alive, save_pc, save_id, reader_id, dir_entries,
                 sessions>>
  /\ UNCHANGED <<dvars, avars, lvars, rvars, pvars, fvars, uvars>>

NextFiles ==
  \/ \E id \in 1..MaxIds : SaveBegin(id)
  \/ \E all \in BOOLEAN : SaveWrite(all)
  \/ \E id \in 1..MaxIds : ProcessDies(id)
  \/ \E id \in 1..MaxIds : FileCleanup(id)
  \/ ListBegin
  \/ ListEntry
  \/ \E id \in 1..MaxIds : LoadBegin(id)
  \/ LoadRead

SpecFiles == Init /\ [][NextFiles]_vars

(***************************************************************************)
(* SpecRing: a PtyBuffer on its own, under every sequence of push and      *)
(* drain_to.  The k-th chunk pushed since the last drain holds the bytes   *)
(* 10 * k + 1 .. 10 * k + n, so that chunks differ.                        *)
(***************************************************************************)
\* PtyBuffer::push of the next chunk, n bytes long
RingPush(n) ==
  /\ Len(pushed) < MaxPushes
  /\ LET data == [i \in 1..n |-> 10 * (Len(pushed) + 1) + i]
     IN /\ output_buffer' = push(output_buffer, data)
        /\ pushed' = Append(pushed, data)
  /\ UNCHANGED drained
  /\ UNCHANGED <<dvars, avars, lvars, rvars, evars, cvars, mvars, fvars, uvars, wvars>>

\* PtyBuffer::drain_to into an empty output
RingDrain ==
  /\ drained' = drain_to(output_buffer)
  /\ output_buffer' = drain_left(output_buffer)
  /\ pushed' = <<>>
  /\ UNCHANGED <<dvars, avars, lvars, rvars, evars, cvars, mvars, fvars, uvars, wvars>>

NextRing ==
  \/ \E n \in 1..MaxPushLen : RingPush(n)
  \/ RingDrain

SpecRing == Init /\ [][NextRing]_vars

(***************************************************************************)
(* SpecRecognizer: process_input on its own, called as handle_input_loop   *)
(* calls it, once for every read of stdin, with every sequence of bytes    *)
(* and with or without more than a second since the tilde was held.  The   *)
(* reads stop at the first detach, switch or scrollback request.           *)
(***************************************************************************)
RecKeys == Keys \cup {"lf"}
Reads == UNION {[1..n -> RecKeys] : n \in 1..MaxRead}

\* one read of stdin returning buf, and process_input on it
Feed(buf, timedOut) ==
  /\ rec_request = "none"
  /\ Len(rec_input) + Len(buf) <= MaxFed
  /\ timedOut => rec_state = 1
  /\ LET p == process_input(buf, rec_line_start, rec_state, timedOut)
     IN /\ rec_input' = rec_input \o buf
        /\ rec_line_start' = p.als
        /\ rec_state' = p.es
        /\ rec_request' = IF p.detach THEN "detach"
                          ELSE IF p.switch THEN "switch"
                          ELSE IF p.scroll THEN "scroll"
                          ELSE "none"
        /\ rec_output' = IF p.detach THEN rec_output ELSE rec_output \o p.fwd
  /\ UNCHANGED <<dvars, avars, lvars, rvars, gvars, cvars, mvars, fvars, uvars, wvars>>

NextRecognizer == \E buf \in Reads, timedOut \in BOOLEAN : Feed(buf, timedOut)

SpecRecognizer == Init /\ [][NextRecognizer]_vars

(***************************************************************************)
(* SpecModes: the TerminalModeTracker on its own.  The PTY writes mode     *)
(* sequences and plain bytes; a chunk read from the master ends after a    *)
(* whole sequence or inside one, whose remaining bytes then start the next *)
(* chunk.  A byte is a one-character string.                               *)
(***************************************************************************)
ModeSeqs == {"25l", "25h", "1h", "1l", "1049h", "1049l", "47h", "47l",
             "2004h", "2004l"}
\* the bytes of a mode sequence; "x" is a plain byte
SeqBytes(q) ==
  CASE q = "25l" -> <<"ESC", "[", "?", "2", "5", "l">>
    [] q = "25h" -> <<"ESC", "[", "?", "2", "5", "h">>
    [] q = "1h" -> <<"ESC", "[", "?", "1", "h">>
    [] q = "1l" -> <<"ESC", "[", "?", "1", "l">>
    [] q = "1049h" -> <<"ESC", "[", "?", "1", "0", "4", "9", "h">>
    [] q = "1049l" -> <<"ESC", "[", "?", "1", "0", "4", "9", "l">>
    [] q = "47h" -> <<"ESC", "[", "?", "4", "7", "h">>
    [] q = "47l" -> <<"ESC", "[", "?", "4", "7", "l">>
    [] q = "2004h" -> <<"ESC", "[", "?", "2", "0", "0", "4", "h">>
    [] q = "2004l" -> <<"ESC", "[", "?", "2", "0", "0", "4", "l">>
    [] OTHER -> <<"x">>

\* contains_sequence
contains_sequence(haystack, needle) ==
  /\ needle # <<>>
  /\ Len(needle) <= Len(haystack)
  /\ \E i \in 1..(Len(haystack) - Len(needle) + 1) :
       SubSeq(haystack, i, i + Len(needle) - 1) = needle
Has(bytes, q) == contains_sequence(bytes, SeqBytes(q))

\* TerminalModeTracker::scan, its eight tests in their order
scan(tr, bytes) ==
  LET t1 == IF Has(bytes, "25l") THEN [tr EXCEPT !.cursor_visible = FALSE]
            ELSE tr
      t2 == IF Has(bytes, "25h") THEN [t1 EXCEPT !.cursor_visible = TRUE]
            ELSE t1
      t3 == IF Has(bytes, "1h")
            THEN [t2 EXCEPT !.application_cursor_keys = TRUE] ELSE t2
      t4 == IF Has(bytes, "1l")
            THEN [t3 EXCEPT !.application_cursor_keys = FALSE] ELSE t3
      t5 == IF Has(bytes, "1049h") \/ Has(bytes, "47h")
            THEN [t4 EXCEPT !.alternate_screen = TRUE] ELSE t4
      t6 == IF Has(bytes, "1049l") \/ Has(bytes, "47l")
            THEN [t5 EXCEPT !.alternate_screen = FALSE] ELSE t5
      t7 == IF Has(bytes, "2004h")
            THEN [t6 EXCEPT !.bracketed_paste = TRUE] ELSE t6
      t8 == IF Has(bytes, "2004l")
            THEN [t7 EXCEPT !.bracketed_paste = FALSE] ELSE t7
  IN t8

\* TerminalModeTracker::observe of a chunk that is not empty; MAX_TAIL is 7
observe(tr, chunk) ==
  LET t1 == scan(tr, chunk)
      t2 == IF tr.tail # <<>> THEN scan(t1, tr.tail \o chunk) ELSE t1
  IN [t2 EXCEPT !.tail = Drop(chunk, Len(chunk) - Min(Len(chunk), 7))]

\* the PTY has started this many sequences and plain bytes
ModeCount == Len(mode_seen) + (IF mode_part = "none" THEN 0 ELSE 1)

\* run_detached reads a chunk and observes it: the rest of the sequence the
\* last chunk ended in, then the items of whole, then the first k bytes of
\* the sequence part
ObserveChunk(whole, part, k) ==
  /\ ModeCount + Len(whole) + (IF part = "none" THEN 0 ELSE 1)
       <= MaxModeSeqs
  /\ part # "none" => k \in 1..(Len(SeqBytes(part)) - 1)
  /\ part = "none" => k = 1
  /\ LET bytes == mode_rest
                    \o Flatten([i \in 1..Len(whole) |-> SeqBytes(whole[i])])
                    \o (IF part = "none" THEN <<>>
                        ELSE Take(SeqBytes(part), k))
     IN /\ bytes # <<>>
        /\ terminal_modes' = observe(terminal_modes, bytes)
  /\ mode_seen' = mode_seen
                    \o (IF mode_part = "none" THEN <<>> ELSE <<mode_part>>)
                    \o whole
  /\ mode_part' = part
  /\ mode_rest' = IF part = "none" THEN <<>> ELSE Drop(SeqBytes(part), k)
  /\ UNCHANGED <<dvars, avars, lvars, rvars, gvars, evars, cvars, fvars, uvars, wvars>>

\* the items the PTY may still write whole in one chunk
Wholes(n) == UNION {[1..m -> ModeSeqs \cup {"x"}] : m \in 0..n}

NextModes ==
  \/ \E whole \in Wholes(MaxModeSeqs - ModeCount) :
       ObserveChunk(whole, "none", 1)
  \/ ModeCount < MaxModeSeqs
       /\ \E whole \in Wholes(MaxModeSeqs - ModeCount - 1),
             part \in ModeSeqs, k \in 1..7 :
            ObserveChunk(whole, part, k)

SpecModes == Init /\ [][NextModes]_vars

(***************************************************************************)
(* SpecCodec: the control envelopes byte by byte (pty/socket.rs) and what  *)
(* handle_client_input does with the bytes of one read.  A byte is a       *)
(* one-character string; "ESC" and "BEL" are the bytes 0x1b and 0x07.  All *)
(* bytes are ASCII, so from_utf8 succeeds.                                 *)
(***************************************************************************)
\* b"\x1b]nds:"
NdsPrefix == <<"ESC", "]", "n", "d", "s", ":">>
Resize == <<"r", "e", "s", "i", "z", "e">>
Detach == <<"d", "e", "t", "a", "c", "h">>
ListClients == <<"l", "i", "s", "t", "_", "c", "l", "i", "e", "n", "t", "s">>
DisconnectClient ==
  <<"d", "i", "s", "c", "o", "n", "n", "e", "c", "t", "_",
    "c", "l", "i", "e", "n", "t">>
\* is_valid_command: the whitelist
ALLOWED_COMMANDS ==
  {Resize, Detach,
   <<"a", "t", "t", "a", "c", "h">>,
   <<"l", "i", "s", "t">>,
   <<"k", "i", "l", "l">>,
   <<"s", "w", "i", "t", "c", "h">>,
   <<"s", "c", "r", "o", "l", "l", "b", "a", "c", "k">>,
   <<"c", "l", "e", "a", "r">>,
   <<"r", "e", "f", "r", "e", "s", "h">>}

DigitChars == <<"0", "1", "2", "3", "4", "5", "6", "7", "8", "9">>
\* format!("{}", n) of an unsigned number
RECURSIVE Digits(_)
Digits(n) ==
  IF n < 10 THEN <<DigitChars[n + 1]>>
  ELSE Append(Digits(n \div 10), DigitChars[(n % 10) + 1])
DigitValue(ch) == (CHOOSE d \in 1..10 : DigitChars[d] = ch) - 1
\* str::parse::<u16>: the value, or -1 for Err (empty, a byte that is not a
\* digit, or more than 65535)
RECURSIVE ParseFrom(_, _)
ParseFrom(text, acc) ==
  IF text = <<>> THEN acc
  ELSE IF Head(text) \notin Range(DigitChars) THEN 0 - 1
  ELSE IF acc * 10 + DigitValue(Head(text)) > 65535 THEN 0 - 1
  ELSE ParseFrom(Tail(text), acc * 10 + DigitValue(Head(text)))
ParseU16(text) == IF text = <<>> THEN 0 - 1 ELSE ParseFrom(text, 0)

\* str::split(':')
RECURSIVE SplitFrom(_, _)
SplitFrom(text, part) ==
  IF text = <<>> THEN <<part>>
  ELSE IF Head(text) = ":" THEN <<part>> \o SplitFrom(Tail(text), <<>>)
  ELSE SplitFrom(Tail(text), Append(part, Head(text)))
Split(text) == SplitFrom(text, <<>>)
\* the parts joined with ':' again
RECURSIVE Join(_)
Join(parts) ==
  IF Len(parts) = 1 THEN parts[1]
  ELSE parts[1] \o <<":">> \o Join(Tail(parts))

StartsWith(text, prefix) ==
  Len(text) >= Len(prefix) /\ SubSeq(text, 1, Len(prefix)) = prefix
\* a find that takes the end of the data for the BEL when there is none
find_bel_or_end(text) ==
  IF \E i \in 1..Len(text) : text[i] = "BEL"
  THEN (CHOOSE i \in 1..Len(text) :
          text[i] = "BEL" /\ \A j \in 1..(i - 1) : text[j] # "BEL") - 1
  ELSE Len(text)
\* cmd_str.find('\x07'): the index, from 0, of the first BEL, -1 for None
find_bel(text) ==
  IF \E i \in 1..Len(text) : text[i] = "BEL"
  THEN (CHOOSE i \in 1..Len(text) :
          text[i] = "BEL" /\ \A j \in 1..(i - 1) : text[j] # "BEL") - 1
  ELSE 0 - 1

IsControl(ch) == ch \in {"ESC", "BEL"}
NotControl(ch) == ~IsControl(ch)
\* sanitize_input: the control characters removed (no part of the model is
\* as long as the 4096 characters it keeps)
sanitize_input(text) == SelectSeq(text, NotControl)
\* is_valid_command
is_valid_command(cmd) == Split(cmd)[1] \in ALLOWED_COMMANDS

NoCommand == [some |-> FALSE, cmd |-> <<>>, args |-> <<>>]
\* parse_nds_command
parse_nds_command(text) ==
  IF Len(text) > 10 /\ Len(text) < 8192 /\ StartsWith(text, NdsPrefix)
     /\ find_bel(text) >= 0
  THEN LET cmd == SubSeq(text, 7, find_bel(text))
           parts == [i \in 1..Len(Split(cmd)) |-> sanitize_input(Split(cmd)[i])]
       IN IF is_valid_command(cmd) /\ Len(parts) <= 10
          THEN [some |-> TRUE, cmd |-> parts[1], args |-> Tail(parts)]
          ELSE NoCommand
  ELSE NoCommand
\* get_command_end: the index behind the BEL, -1 for None
get_command_end(text) ==
  IF Len(text) < 8192 /\ StartsWith(text, NdsPrefix)
     /\ find_bel(text) >= 0 /\ find_bel(text) < 1024
  THEN find_bel(text) + 1
  ELSE 0 - 1

\* send_resize_command: the bytes written for (cols, rows)
Clamp(v) == IF v > 9999 THEN 9999 ELSE IF v < 1 THEN 1 ELSE v
send_resize_command(cols, rows) ==
  NdsPrefix \o Resize \o <<":">> \o Digits(Clamp(cols)) \o <<":">>
    \o Digits(Clamp(rows)) \o <<"BEL">>

\* handle_client_input, the branch Ok(n) of one client, the writes to the
\* master succeeding: [size, pty, reply]
client_read(text) ==
  LET p == parse_nds_command(text)
      cols == IF Len(p.args) = 2 THEN ParseU16(p.args[1]) ELSE 0 - 1
      rows == IF Len(p.args) = 2 THEN ParseU16(p.args[2]) ELSE 0 - 1
      end == get_command_end(text)
  IN IF p.some /\ p.cmd = Resize /\ Len(p.args) = 2 /\ cols >= 0 /\ rows >= 0
     THEN [size |-> <<cols, rows>>,
           pty |-> IF end >= 0 /\ end < Len(text) THEN Drop(text, end)
                   ELSE <<>>,
           reply |-> FALSE]
     ELSE IF p.some /\ p.cmd = ListClients
     THEN [size |-> <<>>, pty |-> <<>>, reply |-> TRUE]
     ELSE IF p.some /\ p.cmd = DisconnectClient /\ p.args # <<>>
     THEN [size |-> <<>>, pty |-> <<>>, reply |-> TRUE]
     ELSE [size |-> <<>>, pty |-> text, reply |-> FALSE]

\* the dimensions a terminal may report to send_resize_command (u16)
Dims == {0, 1, 80, 9999, 10000, 65535}
\* the dimensions of the resizes that arrive among keys
WindowDims == {24, 80}
\* the commands and the arguments of the envelopes a peer may write
Commands == {Resize, Detach, ListClients, DisconnectClient, <<"x">>}
ArgTexts ==
  {Digits(v) : v \in {0, 24, 80, 9999, 10000, 65535, 65536}}
    \cup {<<"x">>, <<>>}
ArgLists == UNION {[1..n -> ArgTexts] : n \in 0..MaxArgs}
Tails == UNION {[1..n -> {"k"}] : n \in 0..MaxTail}
\* ESC ] nds: <command> : <arg> ... BEL
Envelope(cmd, args) == NdsPrefix \o Join(<<cmd>> \o args) \o <<"BEL">>

\* the daemon reads text from a client's socket
ReceiveKeyed(kd, hd, text, tl) ==
  /\ cl_kind' = kd
  /\ cl_data' = text
  /\ cl_head' = hd
  /\ cl_tail' = tl
  /\ nds_command' = parse_nds_command(text)
  /\ command_end' = get_command_end(text)
  /\ pty_written' = client_read(text).pty
  /\ size_set' = client_read(text).size
  /\ replied' = client_read(text).reply
  /\ UNCHANGED <<dvars, avars, lvars, rvars, gvars, evars, mvars, fvars, uvars, wvars>>

Receive(kd, text, tl) == ReceiveKeyed(kd, <<>>, text, tl)

\* the resize monitor of an attach client reports a size
SendResize(cols, rows) ==
  /\ cl_kind = "none"
  /\ Receive("resize", send_resize_command(cols, rows), <<>>)

\* a peer writes a well-formed envelope, and maybe keys behind it
SendEnvelope(cmd, args, tl) ==
  /\ cl_kind = "none"
  /\ Receive("envelope", Envelope(cmd, args) \o tl, tl)

\* the read returns only the first k bytes of an envelope, the BEL not
\* among them
SendPrefix(cmd, args, k) ==
  /\ cl_kind = "none"
  /\ k \in 1..(Len(Envelope(cmd, args)) - 1)
  /\ Receive("prefix", Take(Envelope(cmd, args), k), <<>>)

\* one read returns keys of the input loop, a resize of the resize monitor
\* and more keys: two threads of the client write to the same socket
SendKeysAndResize(hd, cols, rows, tl) ==
  /\ cl_kind = "none"
  /\ ReceiveKeyed("keys+resize", hd,
                  hd \o send_resize_command(cols, rows) \o tl, tl)

\* handle_client_input is done with the read; the loop comes round again
NextRead ==
  /\ cl_kind # "none"
  /\ cl_kind' = "none"
  /\ cl_data' = <<>>
  /\ cl_head' = <<>>
  /\ cl_tail' = <<>>
  /\ nds_command' = NoCommand
  /\ command_end' = 0 - 1
  /\ pty_written' = <<>>
  /\ size_set' = <<>>
  /\ replied' = FALSE
  /\ UNCHANGED <<dvars, avars, lvars, rvars, gvars, evars, mvars, fvars, uvars, wvars>>

\* no envelope of the model is longer than this
MaxEnvelope == 24 + 6 * MaxArgs

NextCodec ==
  \/ NextRead
  \/ cl_kind = "none" /\ \E cols \in Dims, rows \in Dims :
                           SendResize(cols, rows)
  \/ cl_kind = "none" /\ \E cmd \in Commands, args \in ArgLists,
                              tl \in Tails : SendEnvelope(cmd, args, tl)
  \/ cl_kind = "none" /\ \E cmd \in Commands, args \in ArgLists,
                              k \in 1..MaxEnvelope : SendPrefix(cmd, args, k)
  \/ cl_kind = "none" /\ \E hd \in Tails, cols \in WindowDims,
                              rows \in WindowDims, tl \in Tails :
                           SendKeysAndResize(hd, cols, rows, tl)

SpecCodec == Init /\ [][NextCodec]_vars

(***************************************************************************)
(* Properties of the daemon (Spec, FairSpec)                               *)
(***************************************************************************)
PtyBytes(s) == Filter(s, 0)
ClientOf(tbl, c) == tbl[CHOOSE i \in 1..Len(tbl) : tbl[i].id = c]
\* the PTY output the daemon has handed to client c and c has not yet read
Handed(c) == PtyBytes(sock[c] \o ClientOf(active_clients, c).pending)
HandedNext(c) == PtyBytes(sock'[c] \o ClientOf(active_clients', c).pending)
AttachedNext(c) == c \in TableIds(active_clients')
\* the step is the client's read of its socket
IsClientRead(c) == dpc' = dpc /\ sock[c] # <<>> /\ sock'[c] = <<>>

\* C1: after broadcast_to_clients has handled a chunk, every byte of the
\* chunk is in the socket or the pending_output of each client that is still
\* in the table, and if the table is empty the chunk is the ring's newest.
C1_ChunkAccounted ==
  [][(dpc = "read" /\ readResult' = "data") =>
       IF active_clients' # <<>>
       THEN \A i \in 1..Len(active_clients') :
              Range(lastChunk') \subseteq
                Range(sock'[active_clients'[i].id])
                  \cup Range(active_clients'[i].pending)
       ELSE /\ ring'.buffer # <<>>
            /\ ring'.buffer[Len(ring'.buffer)] = lastChunk']_vars

\* C1 witness: a broadcast left a client in the table with part of the chunk
\* queued in its pending_output
C1_Witness ==
  /\ dpc = "input" /\ readResult = "data"
  /\ \E i \in 1..Len(active_clients) :
       /\ peer[active_clients[i].id] = "open"
       /\ Range(active_clients[i].pending) \cap Range(lastChunk) # {}

\* C2 (as amended): for a client that stays attached, each daemon step
\* appends to the PTY output handed to it exactly the bytes read from the
\* master in that step, in order; its own read only takes bytes from the
\* front; at its accept it is handed the ring replay, which precedes the
\* stream read since the accept.  A client whose socket would block lags:
\* what waits in its pending_output is eventually written to its socket.
C2_StreamExact ==
  /\ \A c \in ConnIds :
       (Attached(c) /\ ClientOf(active_clients, c).pending # <<>>)
         ~> (~Attached(c) \/ ClientOf(active_clients, c).pending = <<>>)
  /\ [][\A c \in ConnIds :
          /\ (Attached(c) /\ AttachedNext(c) /\ peer[c] = "open") =>
               IF IsClientRead(c)
               THEN HandedNext(c) =
                      PtyBytes(ClientOf(active_clients, c).pending)
               ELSE HandedNext(c) =
                      Handed(c) \o Interval(masterRead, masterRead')
          /\ (~Attached(c) /\ AttachedNext(c) /\ peer[c] = "open") =>
               HandedNext(c) = Flatten(ring.buffer)]_vars

\* C2 (as stated): the PTY output handed to a client is exactly the master
\* stream read since its accept, so at the accept nothing has been handed
C2_SinceAcceptOnly ==
  [][\A c \in ConnIds :
       /\ (Attached(c) /\ AttachedNext(c) /\ peer[c] = "open") =>
            IF IsClientRead(c)
            THEN HandedNext(c) = PtyBytes(ClientOf(active_clients, c).pending)
            ELSE HandedNext(c) =
                   Handed(c) \o Interval(masterRead, masterRead')
       /\ (~Attached(c) /\ AttachedNext(c) /\ peer[c] = "open") =>
            HandedNext(c) = <<>>]_vars

\* C2 witness: a slow client lags: its socket is full and PTY output waits
\* in its pending_output behind what it has not read
C2_Witness ==
  \E c \in ConnIds :
    /\ Attached(c) /\ peer[c] = "open"
    /\ Len(sock[c]) = SockCap
    /\ PtyBytes(ClientOf(active_clients, c).pending) # <<>>
    /\ masterRead = MaxMaster

C4_KillLeavesNoFiles ==
  kpc = "ok" => (json = "none" /\ ~sockFile /\ status = <<>>)

\* C7: while the daemon runs, the status file holds the size of the client
\* table; it is absent only before the first accept
C7_StatusIsCount ==
  alive => /\ status # <<>> => status = <<Len(active_clients)>>
           /\ status = <<>> => active_clients = <<>>

\* C7 witness: between two ticks, after a connect and a disconnect, the
\* file holds the count of the clients that remain
C7_Witness ==
  /\ alive /\ dpc = "accept"
  /\ status = <<1>> /\ Len(active_clients) = 1
  /\ \E c \in ConnIds : peer[c] = "closed" /\ c \notin Range(backlog)

\* C9: once a read of the master has returned 0 the daemon eventually exits
C9_ShellExitEndsDaemon == (alive /\ readResult = "eof") ~> ~alive

\* C5: a client that has closed its socket is eventually out of the table;
\* the step that removes it leaves the count of the remaining clients in the
\* status file, removes no client whose socket is open, and every client
\* that stays has been handed the master output read in that step.
C5_ClosedClientRemoved ==
  /\ \A c \in ConnIds : (Attached(c) /\ peer[c] = "closed") ~> ~Attached(c)
  /\ [][\A c \in ConnIds :
          (Attached(c) /\ ~AttachedNext(c) /\ alive') =>
            /\ peer[c] = "closed"
            /\ status' = <<Len(active_clients')>>
            /\ \A o \in ConnIds :
                 (Attached(o) /\ peer[o] = "open") =>
                   /\ AttachedNext(o)
                   /\ HandedNext(o) =
                        Handed(o) \o Interval(masterRead, masterRead')]_vars

\* C5 witness: of two attached clients the one that closed is out of the
\* table, the status file reads 1 and the other holds master output
C5_Witness ==
  /\ alive /\ status = <<1>> /\ Len(active_clients) = 1
  /\ \E c, o \in ConnIds :
       /\ peer[c] = "closed" /\ ~Attached(c) /\ c \notin Range(backlog)
       /\ peer[o] = "open" /\ Attached(o)
       /\ PtyBytes(sock[o]) # <<>>

\* C31: an error on a client's socket that is not pipe-class is absorbed:
\* while the daemon runs, a client whose socket is open stays in the table
C31_OpenClientStays ==
  [][\A c \in ConnIds :
       (Attached(c) /\ peer[c] = "open" /\ alive') => AttachedNext(c)]_vars

(***************************************************************************)
(* Properties of the attach client (SpecAttach, FairAttach)                *)
(***************************************************************************)
\* C6: once the daemon's end of the socket is closed, an attach client in
\* its input loop eventually returns with the caller terminal restored
C6_AttachLeavesOnClose ==
  (daemonEnd = "closed" /\ apc \in {"loop", "poll"})
    ~> (apc = "returned" /\ tty = "original")

\* C10: when attach_to_session has returned after set_raw_mode, the caller
\* terminal has the termios saved at the start
C10_RestoredOnReturn ==
  (apc = "returned" /\ rawSet) => tty = "original"

\* C18: a '~' held by the recognizer is eventually released (forwarded, the
\* recognizer back in Normal) or the input loop is left, even when no further
\* input arrives
C18_HeldTildeReleased ==
  (escape_state = 1 /\ apc \in {"loop", "poll"})
    ~> (escape_state = 0 \/ apc \notin {"loop", "poll"})

\* C25: an attach that ended with a switch target is followed by a new
\* attach: attach_session does not return an error for it
C25_SwitchAttachesAgain == ~(result = "switch" /\ attach_result = "err")

(***************************************************************************)
(* Properties of the registry (SpecRegistry)                               *)
(***************************************************************************)
\* the sessions list_all would report: (id, pid) of the healthy records
LiveSessions(m, sb, dm, fg) ==
  {<<id, m[id]>> : id \in HealthyIds(m, sb, dm, fg)}

\* C8: a create is followed by list_all reporting the new session once, and
\* every session that list_all reported before is reported unchanged after
C8_CreateAddsOne ==
  [][(outcome'.op = "create" /\ outcome'.res = "ok"
        /\ spawned' = spawned + 1) =>
       LET before == LiveSessions(meta, sockBound, daemonOf, foreign)
           after == LiveSessions(meta', sockBound', daemonOf', foreign')
           new == SortByCreation(
                    HealthyIds(meta', sockBound', daemonOf', foreign'),
                    meta')
       IN /\ Cardinality({i \in 1..Len(new) : new[i].pid = spawned'}) = 1
          /\ before \subseteq after]_vars

\* C23: load (info) and the attach preflight apply the health check of
\* list_all to a record they find: when its PID is alive and a connect to
\* its socket succeeds the call goes on and the record stays, otherwise the
\* call fails with SessionNotFound and the record's JSON, socket and status
\* files are removed
C23_SameHealthCheck ==
  [][(outcome'.op \in {"info", "attach"} /\ meta[outcome'.id] # 0) =>
       LET id == outcome'.id
       IN IF is_process_alive(meta[id]) /\ is_socket_healthy(id)
          THEN /\ outcome'.res \in {"ok", "attached"}
               /\ meta'[id] = meta[id]
          ELSE /\ outcome'.res = "SessionNotFound"
               /\ meta'[id] = 0
               /\ sockBound'[id] = 0
               /\ ~statusFile'[id]]_vars

C26_CleanupIdempotent ==
  [][outcome'.op = "cleanup" =>
       LET again == session_cleanup(RegNext, outcome'.id)
       IN /\ outcome'.res = "ok"
          /\ again.res = "ok"
          /\ again.reg = RegNext]_vars

\* a cleanup of an id that has been created and whose files were all gone
\* already has returned Ok
C26_Witness ==
  /\ outcome.op = "cleanup" /\ outcome.step = "absent"
  /\ outcome.res = "ok"
  /\ spawned > 0

\* C38: the detach of a client leaves the name of its session's record as
\* the last rename stored it
C38_RenameKept ==
  [][(outcome'.op = "detach" /\ meta[outcome'.id] = client.pid
      /\ client.pid # 0)
     => names'[outcome'.id] = names[outcome'.id]]_vars

\* C39: a list_all that ends has not failed, and a load of a session whose
\* process lives, begun when the record's file was there, has not failed
C39_ReadersTolerateWriters ==
  [][(reader_pc # "idle" /\ reader_pc' = "idle") =>
       /\ reader_pc = "list" => reader_result' = "ok"
       /\ (reader_pc = "load" /\ pid_alive[reader_id])
            => reader_result' = "ok"]_vars

\* C27: a rename that succeeds stores its argument as the name, or no name
\* when the argument is empty or white space, changes nothing else of the
\* registry, and the same rename applied again changes nothing
C27_RenameStoresName ==
  [][(outcome'.op = "rename" /\ outcome'.res = "ok") =>
       LET id == outcome'.id
           text == outcome'.arg
           blank == \A i \in 1..Len(text) : text[i] = " "
           again == rename_session(RegNext, id, text)
       IN /\ names'[id] = IF blank THEN NoName
                          ELSE [some |-> TRUE, text |-> text]
          /\ RegNext = [Reg EXCEPT !.names[id] = names'[id]]
          /\ again.res = "ok"
          /\ again.reg = RegNext]_vars

\* a rename has stored a name that ends in white space
C27_Witness ==
  /\ outcome.op = "rename" /\ outcome.res = "ok"
  /\ outcome.arg = <<"a", " ">>
  /\ names[outcome.id].some

C29_FailedCreateLeavesNothing ==
  [][(outcome'.op = "create" /\ outcome'.step # "none"
        /\ meta[outcome'.id] = 0 /\ sockBound[outcome'.id] = 0) =>
       /\ outcome'.res # "ok"
       /\ meta'[outcome'.id] = 0
       /\ outcome'.id \notin
            HealthyIds(meta', sockBound', daemonOf', foreign')]_vars

(***************************************************************************)
(* Properties of the client input and of what the daemon writes to a       *)
(* client (Spec)                                                           *)
(***************************************************************************)
IsKey(m) == m.t = "key"
\* the keystrokes waiting in the sockets of the clients of tbl, in the order
\* handle_client_input reads them
RECURSIVE KeysSent(_)
KeysSent(tbl) ==
  IF tbl = <<>> THEN <<>>
  ELSE SelectSeq(inbound[Head(tbl).id], IsKey) \o KeysSent(Tail(tbl))

\* C12: a pass of handle_client_input writes to the master every keystroke
\* it read from the clients, once and in order, also when a write to the
\* master fails
C12_InputReachesMaster ==
  [][(dpc = "input" /\ dpc' = "flush") =>
       SelectSeq(ptyIn', IsKey) = KeysSent(active_clients)]_vars

\* the stream client c is handed: what was written to its socket, then what
\* waits in its pending_output
StreamNext(c) == sock'[c] \o ClientOf(active_clients', c).pending

\* C19: in the stream of a client that has just been accepted every byte of
\* the ring replay comes before the mode tracker's set-state sequences
C19_ReplayBeforeModes ==
  [][\A c \in ConnIds :
       (~Attached(c) /\ AttachedNext(c)) =>
         \A i, j \in 1..Len(StreamNext(c)) :
           (StreamNext(c)[i] = ModeSeq /\ StreamNext(c)[j] > 0) => j < i]_vars

\* C20: the socket of an attached client never holds refresh sequences or
\* a notification written because another client left or was reaped
C20_NoExtraBytes ==
  \A c \in ConnIds :
    (Attached(c) /\ peer[c] = "open") =>
      /\ RefreshSeq \notin Range(sock[c])
      /\ Notification \notin Range(sock[c])

\* the smallest (cols, rows) over the clients of tbl
SmallestOf(tbl) ==
  <<MinOf({tbl[j].cols : j \in 1..Len(tbl)}),
    MinOf({tbl[j].rows : j \in 1..Len(tbl)})>>

\* C21: whenever the running daemon removes clients from the table and a
\* client remains, the master's window size is afterwards the smallest cols
\* and the smallest rows of the remaining clients
C21_ResizeOnRemoval ==
  [][(alive' /\ Len(active_clients') < Len(active_clients)
        /\ active_clients' # <<>>) =>
       winsize' = SmallestOf(active_clients')]_vars

\* the per-client cap of the pending queue, scaled to the model: one
\* message more than a socket buffer holds
PendingCap == SockCap + 1

\* C30: the pending_output of a client in the table never holds more than
\* the cap
C30_PendingCapped ==
  \A i \in 1..Len(active_clients) :
     Len(active_clients[i].pending) <= PendingCap

(***************************************************************************)
(* Properties of the PtyBuffer (SpecRing)                                  *)
(***************************************************************************)
RECURSIVE SumLen(_)
SumLen(chunks) ==
  IF chunks = <<>> THEN 0 ELSE Len(Head(chunks)) + SumLen(Tail(chunks))
\* t is what s holds from position k + 1 on, for some k
IsSuffixOf(t, s) == \E k \in 0..Len(s) : t = SubSeq(s, k + 1, Len(s))
\* a step of drain_to after some push
IsDrain == pushed # <<>> /\ pushed' = <<>>

\* C11: the running total is the sum of the lengths of the chunks held and
\* at most the cap; the chunks held are the newest of the chunks pushed, whole
\* and in push order; a drain_to yields the bytes of those chunks, at most
\* cap of them, and leaves the ring empty with total 0.
C11_RingAccounting ==
  /\ [](/\ output_buffer.total = SumLen(output_buffer.buffer)
        /\ output_buffer.total <= RingCap
        /\ IsSuffixOf(output_buffer.buffer, pushed))
  /\ [][IsDrain =>
          /\ \E k \in 0..Len(pushed) :
               drained' = Flatten(SubSeq(pushed, k + 1, Len(pushed)))
          /\ drained' = Flatten(output_buffer.buffer)
          /\ Len(drained') <= RingCap
          /\ output_buffer' = [buffer |-> <<>>, total |-> 0]]_vars

\* C11 witness: after a drain_to that yielded bytes, more than twice the cap
\* was pushed, whole oldest chunks were evicted and the ring holds a chunk
C11_Witness ==
  /\ SumLen(pushed) > 2 * RingCap
  /\ output_buffer.buffer # <<>>
  /\ Len(output_buffer.buffer) < Len(pushed)
  /\ drained # <<>>

\* C34: when the daemon has read what an attached client sent, the size it
\* holds for the client is the size of the last resize envelope in it
\* (nothing is left to apply it later)
C34_ResizeApplied ==
  [][\A c \in ConnIds :
       (/\ Attached(c) /\ AttachedNext(c)
        /\ inbound'[c] = <<>>
        /\ \E k \in 1..Len(inbound[c]) : inbound[c][k].t = "resize")
       => LET data == inbound[c]
              k == CHOOSE j \in 1..Len(data) :
                     /\ data[j].t = "resize"
                     /\ \A l \in (j + 1)..Len(data) : data[l].t # "resize"
              cl == ClientOf(active_clients', c)
          IN <<cl.cols, cl.rows>> = <<data[k].cols, data[k].rows>>]_vars

\* C33: accepting the connection of a health probe leaves the ring as it is
\* and sends no refresh to the shell
C33_ProbeLeavesRing ==
  [][(/\ dpc = "accept" /\ dpc' = "read"
      /\ backlog # <<>> /\ Head(backlog) = Probe
      /\ ring.buffer # <<>>)
     => (ring' = ring /\ FormFeed \notin Range(ptyIn'))]_vars

(***************************************************************************)
(* Properties of the socket-to-stdout thread (SpecPump)                    *)
(***************************************************************************)
\* C32: the scrollback buffer never holds more than its cap
C32_ScrollbackCapped == Len(scrollback) <= ScrollCap

\* C36: once the thread has resumed and flushed, stdout holds every byte
\* read, once and in order, and the scrollback holds the last of them, each
\* once and in order
C36_EveryByteOnce ==
  (~pump_paused /\ held_buffer = <<>>) =>
     /\ stdout_bytes = Positions(sock_read)
     /\ IsSuffixOf(scrollback, Positions(sock_read))

(***************************************************************************)
(* Properties of the escape recognizer (SpecRecognizer)                    *)
(***************************************************************************)
\* s holds an Enter, then a tilde, then one more byte
HasEnterTilde(s) ==
  \E i \in 1..Len(s) : i + 2 <= Len(s) /\ IsNewline(s[i]) /\ s[i + 1] = "~"
\* s holds no Ctrl-D, and no tilde that is its first byte or follows an Enter
NoLineStartTilde(s) ==
  \A i \in 1..Len(s) :
    /\ s[i] # "eot"
    /\ s[i] = "~" => (i > 1 /\ ~IsNewline(s[i - 1]))

\* C16: for every input with no Ctrl-D and no tilde at a line start (first
\* byte of the attach, or directly after CR or LF) the bytes forwarded are
\* exactly the input and nothing is requested
C16_PlainInputForwarded ==
  NoLineStartTilde(rec_input) =>
    (rec_output = rec_input /\ rec_request = "none")

\* C16 (as stated): for every input with no Enter, tilde, byte pattern the
\* bytes forwarded are exactly the input and nothing is requested
C16_NoPatternForwarded ==
  ~HasEnterTilde(rec_input) =>
    (rec_output = rec_input /\ rec_request = "none")

\* C16 witness: an input with tildes in it and Enter keys, forwarded as it is
C16_Witness ==
  /\ Len(rec_input) = MaxFed
  /\ NoLineStartTilde(rec_input)
  /\ \E i, j \in 1..Len(rec_input) :
       rec_input[i] = "~" /\ IsNewline(rec_input[j])
  /\ rec_output = rec_input

\* C17: a tilde is held only when no byte was emitted yet or the byte emitted
\* last is CR or LF
C17_HeldOnlyAtLineStart ==
  (rec_state = 1 /\ rec_request = "none") =>
    (rec_output = <<>> \/ IsNewline(rec_output[Len(rec_output)]))

\* the keys that are part of no command: not a tilde, not d, s or h, not
\* Ctrl-D
IsPlainKey(byte) == byte \in {"x", "cr", "lf"}

\* C40: the keys read from stdin that are part of no command have all been
\* forwarded, each once and in their order
C40_OrdinaryInputForwarded ==
  SelectSeq(rec_output, IsPlainKey) = SelectSeq(rec_input, IsPlainKey)

(***************************************************************************)
(* Properties of the control envelopes (SpecCodec)                         *)
(***************************************************************************)
\* C13: of a read that starts with a well-formed envelope nothing but the
\* bytes behind the envelope is written to the master
C13_EnvelopeNotForwarded ==
  cl_kind \in {"resize", "envelope"} => pty_written \in {<<>>, cl_tail}

\* C14: the window size set on the master has both dimensions in 1..9999
C14_SizeClamped ==
  size_set # <<>> => (size_set[1] \in 1..9999 /\ size_set[2] \in 1..9999)

\* C15: for a prefix of an envelope without its BEL, parse_nds_command and
\* get_command_end report nothing, and the daemon takes the bytes for plain
\* input: no size is set, nothing is answered
C15_PrefixIsNoCommand ==
  cl_kind = "prefix" =>
    /\ ~nds_command.some
    /\ command_end = 0 - 1
    /\ size_set = <<>> /\ ~replied
    /\ pty_written = cl_data

\* C15 witness: the prefix holds a whole resize command with both of its
\* arguments, only the BEL is missing
C15_Witness ==
  /\ cl_kind = "prefix"
  /\ cl_data = NdsPrefix \o Resize \o <<":", "8", "0", ":", "2", "4">>
  /\ ~nds_command.some /\ command_end = 0 - 1

\* C35: of a read of keys, a resize envelope and keys the daemon applies
\* the resize and writes the keys before and the keys behind the envelope to
\* the master, in that order, and none of the envelope's bytes
C35_KeysAroundEnvelope ==
  cl_kind = "keys+resize" =>
    /\ size_set # <<>>
    /\ pty_written = cl_head \o cl_tail

(***************************************************************************)
(* Properties of the mode tracker (SpecModes)                              *)
(***************************************************************************)
\* the value the last of the sequences on / off in seen gives a mode, or
\* initial when seen holds none of them
RECURSIVE LastSet(_, _, _, _)
LastSet(seen, on, off, initial) ==
  IF seen = <<>> THEN initial
  ELSE IF seen[Len(seen)] \in on THEN TRUE
  ELSE IF seen[Len(seen)] \in off THEN FALSE
  ELSE LastSet(SubSeq(seen, 1, Len(seen) - 1), on, off, initial)

\* C22: each bit of the tracker is the value set by the last sequence of
\* its mode that the PTY has written, or its initial value
C22_BitsFollowLastSequence ==
  /\ terminal_modes.cursor_visible =
       LastSet(mode_seen, {"25h"}, {"25l"}, TRUE)
  /\ terminal_modes.application_cursor_keys =
       LastSet(mode_seen, {"1h"}, {"1l"}, FALSE)
  /\ terminal_modes.alternate_screen =
       LastSet(mode_seen, {"1049h", "47h"}, {"1049l", "47l"}, FALSE)
  /\ terminal_modes.bracketed_paste =
       LastSet(mode_seen, {"2004h"}, {"2004l"}, FALSE)

\* the four bits of a tracker
ModeBits(tr) == <<tr.cursor_visible, tr.application_cursor_keys,
                  tr.alternate_screen, tr.bracketed_paste>>
\* TerminalModeTracker::default
DefaultModes == [cursor_visible |-> TRUE,
                 application_cursor_keys |-> FALSE,
                 alternate_screen |-> FALSE,
                 bracketed_paste |-> FALSE,
                 tail |-> <<>>]

\* C37: at the end of a sequence the tracker that observed the output read
\* by read holds the bits of a tracker that observes the same output as one
\* chunk
C37_ChunkingIndependent ==
  (mode_part = "none" /\ mode_seen # <<>>) =>
    ModeBits(terminal_modes) =
      ModeBits(observe(DefaultModes,
                       Flatten([i \in 1..Len(mode_seen) |->
                                  SeqBytes(mode_seen[i])])))

====
